---- MODULE Spec2Model ----
(***************************************************************************)
(* Model of the PostgreSQL -> Snowflake/dbt transpiler (src/main.py and    *)
(* src/code/functions/*.py).                                               *)
(*                                                                         *)
(* SQL text is a sequence of lexemes.  A lexeme is a string standing for a *)
(* run of characters of one class: a run of word characters (an            *)
(* identifier, keyword or number), a run of whitespace, or one punctuation *)
(* mark.  Python's regular expressions are translated on that alphabet:    *)
(* \w+ is a word lexeme, \s+ a non-empty run of whitespace lexemes, \S+ a   *)
(* maximal run of non-whitespace lexemes, [^,]+ a run of lexemes other     *)
(* than ",", and so on.                                                    *)
(***************************************************************************)
EXTENDS Integers, Sequences, FiniteSets, TLC

VARIABLES
    pc,         \* position of the call being modelled
    desc,       \* the structured description the input text was rendered from
    sql_in,     \* the text passed by the caller
    sql,        \* the local variable `sql` of convert_postgres_to_snowflake
    converted,  \* the value returned by the textual function under study
    generated,  \* the value returned by a Generator override
    hashseed,   \* PYTHONHASHSEED of the process: fixes the order of list(set(..))
    stderr,     \* the lines written to sys.stderr
    stdout,     \* the lines printed by main, convert_pry_to_dbt and generate_dbt_model
    written,    \* the files written so far
    main_block_tables, \* the local variable main_block_tables of main
    file_idx,   \* index of the file the running pass of main is at
    query_idx   \* index of the query convert_pry_to_dbt is at

vars == <<pc, desc, sql_in, sql, converted, generated, hashseed,
          stderr, stdout, written, main_block_tables, file_idx, query_idx>>

\* what a check of one function leaves untouched
idle == <<stderr, stdout, written, main_block_tables, file_idx, query_idx>>

RestIdle ==
    /\ stderr = <<>>
    /\ stdout = <<>>
    /\ written = {}
    /\ main_block_tables = {}
    /\ file_idx = 0
    /\ query_idx = 0

None == <<"<None>">>

----------------------------------------------------------------------------
(* Lexeme classes *)

WsToks == {" ", "\n", "\n    ", "\n  ", "\n ", "        "}

Punct == {"(", ")", "[", "]", ",", "'", "\"", ".", "::", "$$", ";", "=", "*",
          "+", "-", "/", ":", "{{", "}}", "{#", "#}", "=>", "--", "/*", "*/", "{%", "{%-", "%}", "2024-01-01",
          "2024-12-31"}

DigitToks == {"0", "1", "2", "3", "7", "10", "12"}

IsWs(t) == t \in WsToks

IsWord(t) == t \notin (WsToks \cup Punct)

IsDigits(t) == t \in DigitToks

\* str.upper() on the lexemes the inputs use
Upper(t) ==
    CASE t = "interval" -> "INTERVAL"
      [] t = "month" -> "MONTH"
      [] t = "day" -> "DAY"
      [] t = "year" -> "YEAR"
      [] t = "from" -> "FROM"
      [] t = "From" -> "FROM"
      [] t = "join" -> "JOIN"
      [] t = "left" -> "LEFT"
      [] t = "lateral" -> "LATERAL"
      [] t = "as" -> "AS"
      [] t = "select" -> "SELECT"
      [] t = "order" -> "ORDER"
      [] t = "with" -> "WITH"
      [] t = "unnest" -> "UNNEST"
      [] t = "array" -> "ARRAY"
      [] t = "generate_series" -> "GENERATE_SERIES"
      [] t = "Generate_Series" -> "GENERATE_SERIES"
      [] t = "crosstab" -> "CROSSTAB"
      [] t = "Crosstab" -> "CROSSTAB"
      [] t = "table" -> "TABLE"
      [] t = "Table" -> "TABLE"
      [] t = "patient" -> "PATIENT"
      [] t = "Patient" -> "PATIENT"
      [] t = "orders" -> "ORDERS"
      [] t = "joined" -> "JOINED"
      [] t = "create" -> "CREATE"
      [] t = "materialized" -> "MATERIALIZED"
      [] t = "view" -> "VIEW"
      [] OTHER -> t

\* str.lower() on the lexemes the inputs use
Lower(t) ==
    CASE t = "Patient" -> "patient"
      [] t = "PATIENT" -> "patient"
      [] t = "Blk" -> "blk"
      [] t = "C1" -> "c1"
      [] t = "TABLE" -> "table"
      [] t = "Table" -> "table"
      [] t = "GENERATE_SERIES" -> "generate_series"
      [] t = "Generate_Series" -> "generate_series"
      [] t = "CROSSTAB" -> "crosstab"
      [] t = "Crosstab" -> "crosstab"
      [] t = "SELECT" -> "select"
      [] t = "WITH" -> "with"
      [] t = "CASE" -> "case"
      [] OTHER -> t

\* the one element of a one-element set
Only(S) == CHOOSE x \in S : TRUE

Min(S) == CHOOSE x \in S : \A y \in S : x <= y

Max(S) == CHOOSE x \in S : \A y \in S : x >= y

\* position after the run of whitespace that starts at i (i itself when none)
SkipWs(s, i) ==
    CHOOSE j \in i..(Len(s) + 1) :
        /\ \A k \in i..(j - 1) : IsWs(s[k])
        /\ (j = Len(s) + 1 \/ ~IsWs(s[j]))

\* position after the run of word lexemes that starts at i (i itself when none)
WordEnd(s, i) ==
    CHOOSE j \in i..(Len(s) + 1) :
        /\ \A k \in i..(j - 1) : IsWord(s[k])
        /\ (j = Len(s) + 1 \/ ~IsWord(s[j]))

\* str.strip()
Strip(s) ==
    LET keep == {i \in 1..Len(s) : ~IsWs(s[i])}
    IN IF keep = {} THEN <<>> ELSE SubSeq(s, Min(keep), Max(keep))

RECURSIVE Join(_, _)
\* sep.join(parts)
Join(parts, sep) ==
    IF Len(parts) = 0 THEN <<>>
    ELSE IF Len(parts) = 1 THEN parts[1]
    ELSE parts[1] \o sep \o Join(Tail(parts), sep)

\* all sequences over S of length 0..n
RECURSIVE SeqsUpTo(_, _)
SeqsUpTo(S, n) ==
    IF n = 0 THEN {<<>>}
    ELSE LET shorter == SeqsUpTo(S, n - 1)
         IN shorter \cup {Append(q, x) : q \in {r \in shorter : Len(r) = n - 1}, x \in S}

----------------------------------------------------------------------------
(* generate_series: the Generator override and the textual pre-pass *)

NoMatch == [found |-> FALSE]

\* re.search(r"INTERVAL\s+'(\d+)\s+(\w+)'", step, re.IGNORECASE), case-sensitive
IntervalSearchCaseSensitive(step) ==
    LET After1(i) == SkipWs(step, i + 1)
        After2(i) == SkipWs(step, After1(i) + 2)
        MatchAt(i) ==
            /\ step[i] = "INTERVAL"
            /\ After1(i) > i + 1
            /\ After1(i) + 1 <= Len(step)
            /\ step[After1(i)] = "'"
            /\ IsDigits(step[After1(i) + 1])
            /\ After2(i) > After1(i) + 2
            /\ After2(i) + 1 <= Len(step)
            /\ IsWord(step[After2(i)])
            /\ step[After2(i) + 1] = "'"
        hits == {i \in 1..Len(step) : MatchAt(i)}
    IN IF hits = {} THEN NoMatch
       ELSE [found |-> TRUE,
             group1 |-> step[After1(Min(hits)) + 1],
             group2 |-> step[After2(Min(hits))]]

\* re.search(r"INTERVAL\s+'(\d+)\s+(\w+)'", step, re.IGNORECASE)
IntervalSearch(step) ==
    LET After1(i) == SkipWs(step, i + 1)
        After2(i) == SkipWs(step, After1(i) + 2)
        MatchAt(i) ==
            /\ Upper(step[i]) = "INTERVAL"
            /\ After1(i) > i + 1
            /\ After1(i) + 1 <= Len(step)
            /\ step[After1(i)] = "'"
            /\ IsDigits(step[After1(i) + 1])
            /\ After2(i) > After1(i) + 2
            /\ After2(i) + 1 <= Len(step)
            /\ IsWord(step[After2(i)])
            /\ step[After2(i) + 1] = "'"
        hits == {i \in 1..Len(step) : MatchAt(i)}
    IN IF hits = {} THEN NoMatch
       ELSE [found |-> TRUE,
             group1 |-> step[After1(Min(hits)) + 1],
             group2 |-> step[After2(Min(hits))]]

\* super().function_sql(expression): the library's default rendering of a call
DefaultFunctionSql(name, args) ==
    <<name, "(">> \o Join(args, <<",", " ">>) \o <<")">>

\* FixedSnowflake.Generator.function_sql; args are the arguments as serialized
\* by self.sql(..)
function_sql(name, args) ==
    IF Lower(name) = "generate_series" THEN
        LET arg_count == Len(args)
            start == args[1]
            end == IF arg_count > 1 THEN args[2] ELSE <<"None">>
            step0 == IF arg_count > 2 THEN args[3] ELSE None
            step == IF step0 = None THEN <<"1">> ELSE step0
            interval_match == IntervalSearch(step)
        IN IF interval_match.found THEN
               LET step_value == interval_match.group1
                   step_unit == Upper(interval_match.group2)
                   rowcount ==
                       <<"DATEDIFF", "(", step_unit, ",", " ">> \o start
                       \o <<",", " ">> \o end
                       \o <<")", " ", "/", " ", step_value, " ", "+", " ", "1">>
               IN <<"TABLE", "(", "GENERATOR", "(", "ROWCOUNT", " ", "=>", " ">>
                  \o rowcount
                  \o <<")", ")", " ", "AS", " ", "g", ",", " ",
                       "LATERAL", " ", "(", "SELECT", " ",
                       "DATEADD", "(", step_unit, ",", " ", "SEQ4", "(", ")",
                       " ", "*", " ", step_value, ",", " ">>
                  \o start
                  \o <<")", " ", "AS", " ", "a", ")", " ", "AS", " ", "s">>
           ELSE
               LET rowcount ==
                       <<"(", "(">> \o end \o <<")", " ", "-", " ", "(">>
                       \o start \o <<")", ")", " ", "/", " ", "(">> \o step
                       \o <<")", " ", "+", " ", "1">>
               IN <<"TABLE", "(", "GENERATOR", "(", "ROWCOUNT", " ", "=>", " ">>
                  \o rowcount
                  \o <<")", ")", " ", "AS", " ", "g", ",", " ",
                       "LATERAL", " ", "(", "SELECT", " ", "(">>
                  \o start
                  \o <<")", " ", "+", " ", "SEQ4", "(", ")", " ", "*", " ", "(">>
                  \o step
                  \o <<")", " ", "AS", " ", "a", ")", " ", "AS", " ", "s">>
    ELSE DefaultFunctionSql(name, args)

\* the end  \)\s+AS\s+(\w+)\s*\((\w+)\)  of the pre-pass pattern, its ")" at k
SeriesTailAt(s, k) ==
    LET a == SkipWs(s, k + 1)
        b == SkipWs(s, a + 1)
        c == SkipWs(s, b + 1)
    IN /\ k <= Len(s)
       /\ s[k] = ")"
       /\ a > k + 1
       /\ a <= Len(s)
       /\ Upper(s[a]) = "AS"
       /\ b > a + 1
       /\ b <= Len(s)
       /\ IsWord(s[b])
       /\ c + 2 <= Len(s)
       /\ s[c] = "("
       /\ IsWord(s[c + 1])
       /\ s[c + 2] = ")"

\* the match of
\*   FROM\s+generate_series\s*\(\s*([^,]+)\s*,\s*([^,]+)\s*(?:,\s*([^\)]+))?\)\s+AS\s+(\w+)\s*\((\w+)\)
\* (re.IGNORECASE) that starts at lexeme i, if any
SeriesMatchAt(s, i) ==
    LET a == SkipWs(s, i + 1)                 \* generate_series
        b == SkipWs(s, a + 1)                 \* (
        p == SkipWs(s, b + 1)
        commas1 == {c \in p..Len(s) : s[c] = ","}
        c1 == Min(commas1)
        g1from == IF c1 > p THEN p ELSE p - 1
        q == SkipWs(s, c1 + 1)
        commas2 == {c \in (c1 + 1)..Len(s) : s[c] = ","}
        c2 == IF commas2 = {} THEN Len(s) + 1 ELSE Min(commas2)
        g2from == IF c2 > q THEN q ELSE q - 1
        \* three arguments: group 2 runs to the second comma, group 3 to the next ")"
        r == SkipWs(s, c2 + 1)
        closers == {k \in r..Len(s) : s[k] = ")"}
        k3 == Min(closers)
        g3from == IF k3 > r THEN r ELSE r - 1
        three == /\ c2 <= Len(s)
                 /\ g2from > c1
                 /\ closers # {}
                 /\ g3from > c2
                 /\ SeriesTailAt(s, k3)
        \* two arguments: group 2 is greedy, so it ends at the last ")" before the
        \* next comma that the end of the pattern accepts
        ends2 == {k \in (q + 1)..(c2 - 1) : s[k] = ")" /\ SeriesTailAt(s, k)}
        k2 == Max(ends2)
        head == /\ Upper(s[i]) = "FROM"
                /\ a > i + 1
                /\ a <= Len(s)
                /\ Upper(s[a]) = "GENERATE_SERIES"
                /\ b <= Len(s)
                /\ s[b] = "("
                /\ commas1 # {}
                /\ g1from > b
        close == IF three THEN k3 ELSE k2
        aliasAt == SkipWs(s, SkipWs(s, close + 1) + 1)
        colAt == SkipWs(s, aliasAt + 1) + 1
    IN IF head /\ (three \/ ends2 # {})
       THEN [found |-> TRUE,
             group1 |-> SubSeq(s, g1from, c1 - 1),
             group2 |-> IF three THEN SubSeq(s, g2from, c2 - 1)
                        ELSE SubSeq(s, q, k2 - 1),
             group3 |-> IF three THEN SubSeq(s, g3from, k3 - 1) ELSE None,
             group4 |-> s[aliasAt],
             group5 |-> s[colAt],
             last |-> colAt + 1]
       ELSE NoMatch

\* repl of convert_generate_series_to_snowflake
SeriesRepl(match) ==
    LET start == Strip(match.group1)
        end == Strip(match.group2)
        alias == match.group4
        col == match.group5
        step == IF match.group3 # None /\ match.group3 # <<>>
                THEN Strip(match.group3)
                ELSE <<"INTERVAL", " ", "'", "1", " ", "day", "'">>
        interval_match == IntervalSearch(step)
    IN IF interval_match.found THEN
           LET step_value == interval_match.group1
               step_unit == Upper(interval_match.group2)
               rowcount ==
                   <<"DATEDIFF", "(", step_unit, ",", " ">> \o start
                   \o <<",", " ">> \o end
                   \o <<")", " ", "/", " ", step_value, " ", "+", " ", "1">>
           IN <<"FROM", " ", "TABLE", "(", "GENERATOR", "(", "ROWCOUNT", " ", "=>", " ">>
              \o rowcount
              \o <<")", ")", " ", "AS", " ", "g", ",", " ",
                   "LATERAL", " ", "(", "SELECT", " ",
                   "DATEADD", "(", step_unit, ",", " ", "SEQ4", "(", ")",
                   " ", "*", " ", step_value, ",", " ">>
              \o start
              \o <<")", " ", "AS", " ", col, ")", " ", "AS", " ", alias>>
       ELSE
           LET rowcount ==
                   <<"(", "(">> \o end \o <<")", " ", "-", " ", "(">>
                   \o start \o <<")", ")", " ", "/", " ", "(">> \o step
                   \o <<")", " ", "+", " ", "1">>
           IN <<"FROM", " ", "TABLE", "(", "GENERATOR", "(", "ROWCOUNT", " ", "=>", " ">>
              \o rowcount
              \o <<")", ")", " ", "AS", " ", "g", ",", " ",
                   "LATERAL", " ", "(", "SELECT", " ", "(">>
              \o start
              \o <<")", " ", "+", " ", "SEQ4", "(", ")", " ", "*", " ", "(">>
              \o step
              \o <<")", " ", "AS", " ", col, ")", " ", "AS", " ", alias>>

RECURSIVE SeriesSubFrom(_, _)
\* pattern.sub(repl, sql) from lexeme i on: leftmost matches, not overlapping
SeriesSubFrom(s, i) ==
    Only({IF starts = {} THEN SubSeq(s, i, Len(s))
          ELSE Only({SubSeq(s, i, Min(starts) - 1) \o SeriesRepl(match)
                     \o SeriesSubFrom(s, match.last + 1) :
                     match \in {SeriesMatchAt(s, Min(starts))}}) :
          starts \in {{k \in i..Len(s) : SeriesMatchAt(s, k).found}}})

convert_generate_series_to_snowflake(s) == SeriesSubFrom(s, 1)

----------------------------------------------------------------------------
(* Inputs of the generate_series checks: calls generate_series(start, end[, step]) *)

SeriesBounds == {
    [start |-> <<"1">>, end |-> <<"10">>],
    [start |-> <<"'", "2024-01-01", "'", "::", "date">>,
     end |-> <<"'", "2024-12-31", "'", "::", "date">>]}

StepDescs ==
    [kind : {"interval"}, kw : {"INTERVAL", "interval"}, n : {"1", "3"},
     unit : {"month", "DAY"}, form : {"inside", "outside", "bare", "words"}]
    \cup [kind : {"num"}, kw : {"-"}, n : {"2", "7"}, unit : {"-"}, form : {"-"}]
    \cup [kind : {"absent"}, kw : {"-"}, n : {"-"}, unit : {"-"}, form : {"-"}]

SeriesInputs ==
    [fname : {"generate_series", "Generate_Series", "date_trunc"},
     bounds : SeriesBounds,
     step : StepDescs,
     names : {[alias |-> "s", col |-> "a"], [alias |-> "gs", col |-> "d"]}]

\* the step as it is written in the statement (and as the library serializes it)
RenderStep(st) ==
    CASE st.form = "inside" -> <<st.kw, " ", "'", st.n, " ", st.unit, "'">>
      [] st.form = "outside" -> <<st.kw, " ", "'", st.n, "'", " ", st.unit>>
      [] st.form = "bare" -> <<st.kw, " ", "'", st.n, "'">>
      [] st.form = "words" -> <<st.kw, " ", "'", "one", " ", st.unit, "'">>
      [] OTHER -> <<st.n>>

SeriesArgs(d) ==
    IF d.step.kind = "absent" THEN <<d.bounds.start, d.bounds.end>>
    ELSE <<d.bounds.start, d.bounds.end, RenderStep(d.step)>>

SeriesPrefix(d) == <<"SELECT", " ", d.names.col, " ">>

RenderSeriesStmt(d) ==
    SeriesPrefix(d) \o <<"FROM", " ", d.fname, "(">>
    \o Join(SeriesArgs(d), <<",", " ">>)
    \o <<")", " ", "AS", " ", d.names.alias, "(", d.names.col, ")">>

InitSeries ==
    /\ desc \in SeriesInputs
    /\ sql_in = RenderSeriesStmt(desc)
    /\ pc = "start"
    /\ sql = <<>>
    /\ converted = None
    /\ generated = None
    /\ hashseed = 0
    /\ RestIdle

\* the textual pre-pass is applied to the statement
SeriesPrepass ==
    /\ pc = "start"
    /\ converted' = convert_generate_series_to_snowflake(sql_in)
    /\ pc' = "prepassed"
    /\ UNCHANGED <<desc, sql_in, sql, generated, hashseed, idle>>

\* the Generator override is applied to the same call
SeriesOverride ==
    /\ pc = "prepassed"
    /\ generated' = function_sql(desc.fname, SeriesArgs(desc))
    /\ pc' = "done"
    /\ UNCHANGED <<desc, sql_in, sql, converted, hashseed, idle>>

NextSeries == SeriesPrepass \/ SeriesOverride

SpecSeries == InitSeries /\ [][NextSeries]_vars

IsSeriesCall(d) == d.fname \in {"generate_series", "Generate_Series"}

\* what the claims call a step of the form INTERVAL '<N> <UNIT>'
IsIntervalStep(st) == st.kind = "interval" /\ st.form = "inside"

UnitName(u) == IF u = "month" THEN "MONTH" ELSE "DAY"

StepOrOne(st) == IF st.kind = "absent" THEN <<"1">> ELSE RenderStep(st)

ExpectedRowcount(d) ==
    IF IsIntervalStep(d.step)
    THEN <<"DATEDIFF", "(", UnitName(d.step.unit), ",", " ">> \o d.bounds.start
         \o <<",", " ">> \o d.bounds.end
         \o <<")", " ", "/", " ", d.step.n, " ", "+", " ", "1">>
    ELSE <<"(", "(">> \o d.bounds.end \o <<")", " ", "-", " ", "(">>
         \o d.bounds.start \o <<")", ")", " ", "/", " ", "(">> \o StepOrOne(d.step)
         \o <<")", " ", "+", " ", "1">>

ExpectedProjection(d) ==
    IF IsIntervalStep(d.step)
    THEN <<"DATEADD", "(", UnitName(d.step.unit), ",", " ", "SEQ4", "(", ")",
           " ", "*", " ", d.step.n, ",", " ">> \o d.bounds.start \o <<")">>
    ELSE <<"(">> \o d.bounds.start
         \o <<")", " ", "+", " ", "SEQ4", "(", ")", " ", "*", " ", "(">>
         \o StepOrOne(d.step) \o <<")">>

ExpectedSeries(d) ==
    <<"TABLE", "(", "GENERATOR", "(", "ROWCOUNT", " ", "=>", " ">>
    \o ExpectedRowcount(d)
    \o <<")", ")", " ", "AS", " ", "g", ",", " ", "LATERAL", " ", "(", "SELECT", " ">>
    \o ExpectedProjection(d)
    \o <<" ", "AS", " ", "a", ")", " ", "AS", " ", "s">>

\* C7: for a generate_series call with 2 or 3 arguments the override emits the
\* date series (DATEDIFF(<UNIT>, start, end) / <N> + 1 rows, DATEADD projection)
\* exactly when the serialized step is INTERVAL '<N> <UNIT>', and otherwise the
\* numeric series ((end) - (start)) / (step) + 1 with (start) + SEQ4() * (step),
\* a missing step counting as the number 1.
C7_SeriesOverride ==
    (pc = "done" /\ IsSeriesCall(desc)) => generated = ExpectedSeries(desc)

C7_Witness ==
    /\ pc = "done"
    /\ IsSeriesCall(desc)
    /\ IsIntervalStep(desc.step)
    /\ desc.step.kw = "interval"
    /\ generated = ExpectedSeries(desc)

\* C8: the textual pre-pass decides date-vs-numeric and computes the row count
\* and the projection exactly as the override does, for every (start, end, step),
\* the omitted step included: with alias s and column a the rewritten FROM item
\* is the override's text.
C8_PrepassSameAsOverride ==
    (pc = "done" /\ IsSeriesCall(desc) /\ desc.names.alias = "s")
        => converted = SeriesPrefix(desc) \o <<"FROM", " ">> \o generated

----------------------------------------------------------------------------
(* unnest(ARRAY[...]) as a row source: the textual pre-pass *)

\* position after the run of non-whitespace lexemes that starts at i
NonWsEnd(s, i) ==
    CHOOSE j \in i..(Len(s) + 1) :
        /\ \A k \in i..(j - 1) : ~IsWs(s[k])
        /\ (j = Len(s) + 1 \/ IsWs(s[j]))

\* the match of  SELECT\s+unnest\s*\(\s*ARRAY\s*\[(.*?)\]\s*\)\s+(\w+)
\* (re.DOTALL | re.IGNORECASE) that starts at lexeme i, if any
UnnestMatchAt(s, i) ==
    LET a == SkipWs(s, i + 1)                 \* unnest
        b == SkipWs(s, a + 1)                 \* (
        c == SkipWs(s, b + 1)                 \* ARRAY
        d == SkipWs(s, c + 1)                 \* [
        ColAt(j) == SkipWs(s, SkipWs(s, j + 1) + 1)
        Closes(j) ==
            /\ s[j] = "]"
            /\ SkipWs(s, j + 1) <= Len(s)
            /\ s[SkipWs(s, j + 1)] = ")"
            /\ ColAt(j) > SkipWs(s, j + 1) + 1
            /\ ColAt(j) <= Len(s)
            /\ IsWord(s[ColAt(j)])
        closers == {j \in (d + 1)..Len(s) : Closes(j)}
        head == /\ Upper(s[i]) = "SELECT"
                /\ a > i + 1
                /\ a <= Len(s)
                /\ Upper(s[a]) = "UNNEST"
                /\ b <= Len(s)
                /\ s[b] = "("
                /\ c <= Len(s)
                /\ Upper(s[c]) = "ARRAY"
                /\ d <= Len(s)
                /\ s[d] = "["
        j == Min(closers)                     \* (.*?) is lazy: the first "]" that fits
    IN IF head /\ closers # {}
       THEN [found |-> TRUE,
             group1 |-> SubSeq(s, d + 1, j - 1),
             group2 |-> SubSeq(s, ColAt(j), WordEnd(s, ColAt(j)) - 1),
             last |-> WordEnd(s, ColAt(j)) - 1]
       ELSE NoMatch

RECURSIVE FindElements(_, _)
\* re.findall(r"'[^']*'|\"[^\"]*\"|\S+", array_content) from lexeme i on
FindElements(s, i) ==
    IF i > Len(s) THEN <<>>
    ELSE LET closing == {j \in (i + 1)..Len(s) : s[j] = s[i]}
         IN IF s[i] \in {"'", "\""} /\ closing # {}
            THEN <<SubSeq(s, i, Min(closing))>> \o FindElements(s, Min(closing) + 1)
            ELSE IF ~IsWs(s[i])
            THEN <<SubSeq(s, i, NonWsEnd(s, i) - 1)>> \o FindElements(s, NonWsEnd(s, i))
            ELSE FindElements(s, i + 1)

RECURSIVE UnnestRows(_)
\* the generator  f"({e.strip()})" for e in elements if e.strip() and e.strip() != '()'
UnnestRows(elements) ==
    IF Len(elements) = 0 THEN <<>>
    ELSE LET e == Strip(elements[1])
         IN (IF e # <<>> /\ e # <<"(", ")">> THEN <<<<"(">> \o e \o <<")">>>> ELSE <<>>)
            \o UnnestRows(Tail(elements))

\* repl of convert_unnest_array_to_values
UnnestRepl(match) ==
    LET array_content == match.group1
        col == match.group2
        elements == FindElements(array_content, 1)
        values == Join(UnnestRows(elements), <<",", "\n    ">>)
    IN <<"SELECT", "\n    ">> \o col
       \o <<"\n  ", "FROM", " ", "(", "VALUES", "\n    ">> \o values
       \o <<"\n  ", ")", " ", "AS", " ", "t", "(">> \o col \o <<")">>

RECURSIVE UnnestSubFrom(_, _)
\* pattern.sub(repl, sql) from lexeme i on
UnnestSubFrom(s, i) ==
    LET starts == {k \in i..Len(s) : UnnestMatchAt(s, k).found}
        match == UnnestMatchAt(s, Min(starts))
    IN IF starts = {} THEN SubSeq(s, i, Len(s))
       ELSE SubSeq(s, i, Min(starts) - 1) \o UnnestRepl(match)
            \o UnnestSubFrom(s, match.last + 1)

convert_unnest_array_to_values(s) == UnnestSubFrom(s, 1)

----------------------------------------------------------------------------
(* Inputs of the unnest check: SELECT unnest(ARRAY[e1 <sep> e2 ...]) col *)

MaxElems == 3

ArrayElems == {<<"'", "a", "'">>, <<"'", "b", " ", "c", "'">>, <<"1">>,
               <<"\"", "x", "\"">>, <<"(", ")">>}

ElemSeps == {<<" ">>, <<",">>, <<",", " ">>}

UnnestInputs ==
    [kw : {"SELECT", "select"},
     elems : SeqsUpTo(ArrayElems, MaxElems),
     sep : ElemSeps,
     col : {"x"}]

RenderUnnestStmt(d) ==
    <<d.kw, " ", "unnest", "(", "ARRAY", "[">> \o Join(d.elems, d.sep)
    \o <<"]", ")", " ", d.col>>

InitUnnest ==
    /\ desc \in UnnestInputs
    /\ sql_in = RenderUnnestStmt(desc)
    /\ pc = "start"
    /\ sql = <<>>
    /\ converted = None
    /\ generated = None
    /\ hashseed = 0
    /\ RestIdle

UnnestPrepass ==
    /\ pc = "start"
    /\ converted' = convert_unnest_array_to_values(sql_in)
    /\ pc' = "done"
    /\ UNCHANGED <<desc, sql_in, sql, generated, hashseed, idle>>

NextUnnest == UnnestPrepass

SpecUnnest == InitUnnest /\ [][NextUnnest]_vars

RECURSIVE ExpectedRows(_)
\* one row (e) per array element e, the placeholder () dropped
ExpectedRows(elems) ==
    IF Len(elems) = 0 THEN <<>>
    ELSE (IF elems[1] = <<"(", ")">> THEN <<>> ELSE <<<<"(">> \o elems[1] \o <<")">>>>)
         \o ExpectedRows(Tail(elems))

ExpectedUnnest(d) ==
    <<"SELECT", "\n    ", d.col, "\n  ", "FROM", " ", "(", "VALUES", "\n    ">>
    \o Join(ExpectedRows(d.elems), <<",", "\n    ">>)
    \o <<"\n  ", ")", " ", "AS", " ", "t", "(", d.col, ")">>

\* C9: SELECT unnest(ARRAY[<elements>]) <col> becomes
\* SELECT <col> FROM (VALUES (<e1>), (<e2>), ...) AS t(<col>) with exactly one
\* row per array element, each row holding exactly that element, for every
\* array literal, comma-separated element lists included.
C9_OneRowPerElement ==
    pc = "done" => converted = ExpectedUnnest(desc)

----------------------------------------------------------------------------
(* replace_table_references: the table-reference rewriter *)

\* external_tables, the default of replace_table_references
ExternalTables ==
    {"allergie", "bepaling", "contact", "contraindicatie", "episode", "journaal",
     "journaalregel", "medewerker", "medicatie", "metadata", "origineel",
     "patient", "praktijk", "ruiter", "verrichting", "verwijzing",
     "override_patientenlijst", "functie", "medewerker_hisnaam"}

\* the words that are never taken for a CTE name
NotCteNames == {"select", "insert", "update", "delete", "with", "case"}

IsNewline(t) == t \in {"\n", "\n    ", "\n  ", "\n "}

RECURSIVE StripLineComments(_, _)
\* re.sub(r'--[^\n]*', '', sql) from lexeme i on
StripLineComments(s, i) ==
    LET starts == {k \in i..Len(s) : s[k] = "--"}
        nl == {j \in (Min(starts) + 1)..Len(s) : IsNewline(s[j])}
    IN IF starts = {} THEN SubSeq(s, i, Len(s))
       ELSE SubSeq(s, i, Min(starts) - 1)
            \o (IF nl = {} THEN <<>> ELSE StripLineComments(s, Min(nl)))

RECURSIVE StripDelimited(_, _, _, _)
\* re.sub(r'<open>.*?<close>', '', sql, flags=re.DOTALL) from lexeme i on
StripDelimited(s, i, open, close) ==
    LET starts == {k \in i..Len(s) :
                      s[k] = open /\ \E j \in (k + 1)..Len(s) : s[j] = close}
        ends == {j \in (Min(starts) + 1)..Len(s) : s[j] = close}
    IN IF starts = {} THEN SubSeq(s, i, Len(s))
       ELSE SubSeq(s, i, Min(starts) - 1) \o StripDelimited(s, Min(ends) + 1, open, close)

\* sql_no_comments of replace_table_references
SqlNoComments(s) ==
    StripDelimited(StripDelimited(StripLineComments(s, 1), 1, "/*", "*/"), 1, "{#", "#}")

RECURSIVE AsWordsEnd(_, _)
\* position after (?:\s+\w+)* that starts at p
AsWordsEnd(s, p) ==
    LET w == SkipWs(s, p)
    IN IF w > p /\ w <= Len(s) /\ IsWord(s[w]) THEN AsWordsEnd(s, w + 1) ELSE p

\* the match of  \b(\w+)\s*(?:\([^)]+\))?\s+AS(?:\s+\w+)*\s*\(  (re.IGNORECASE)
\* that starts at lexeme i, if any
CteMatchAt(s, i) ==
    LET a == SkipWs(s, i + 1)
        closers == {k \in (a + 1)..Len(s) : s[k] = ")"}
        withList == a <= Len(s) /\ s[a] = "(" /\ closers # {} /\ Min(closers) >= a + 2
        afterName == IF withList THEN Min(closers) + 1 ELSE i + 1
        as == SkipWs(s, afterName)
        open == SkipWs(s, AsWordsEnd(s, as + 1))
    IN IF /\ IsWord(s[i])
          /\ (i = 1 \/ ~IsWord(s[i - 1]))
          /\ as > afterName
          /\ as <= Len(s)
          /\ Upper(s[as]) = "AS"
          /\ open <= Len(s)
          /\ s[open] = "("
       THEN [found |-> TRUE, group1 |-> s[i], last |-> open]
       ELSE NoMatch

RECURSIVE CteNamesFrom(_, _)
\* the loop over re.finditer(..) that fills cte_names, from lexeme i on
CteNamesFrom(s, i) ==
    LET starts == {k \in i..Len(s) : CteMatchAt(s, k).found}
        match == CteMatchAt(s, Min(starts))
    IN IF starts = {} THEN {}
       ELSE (IF Lower(match.group1) \in NotCteNames THEN {} ELSE {Lower(match.group1)})
            \cup CteNamesFrom(s, match.last + 1)

JoinKinds == {"LEFT", "RIGHT", "INNER", "OUTER", "FULL", "CROSS"}

\* (?!\s+LATERAL) at position p
NotLateral(s, p) ==
    LET w == SkipWs(s, p)
    IN ~(w > p /\ w <= Len(s) /\ Upper(s[w]) = "LATERAL")

\* the match of
\*   \b(FROM|JOIN(?!\s+LATERAL)|LEFT\s+JOIN(?!\s+LATERAL)|...)\s+([a-zA-Z_][\w]*)\b(?!\s*\.|\s*\(|::)
\* (re.IGNORECASE) that starts at lexeme i, if any
TableRefMatchAt(s, i) ==
    LET j == SkipWs(s, i + 1)
        single == \/ Upper(s[i]) = "FROM"
                  \/ (Upper(s[i]) = "JOIN" /\ NotLateral(s, i + 1))
        double == /\ Upper(s[i]) \in JoinKinds
                  /\ j > i + 1
                  /\ j <= Len(s)
                  /\ Upper(s[j]) = "JOIN"
                  /\ NotLateral(s, j + 1)
        kwEnd == IF single THEN i ELSE j
        t == SkipWs(s, kwEnd + 1)
        after == WordEnd(s, t)
        next == SkipWs(s, after)
    IN IF /\ (i = 1 \/ ~IsWord(s[i - 1]))
          /\ (single \/ double)
          /\ t > kwEnd + 1
          /\ t <= Len(s)
          /\ IsWord(s[t])
          /\ ~IsDigits(s[t])
          /\ ~(after <= Len(s) /\ s[after] = "::")
          /\ ~(next <= Len(s) /\ s[next] \in {".", "("})
       THEN [found |-> TRUE,
             group0 |-> SubSeq(s, i, after - 1),
             group1 |-> SubSeq(s, i, kwEnd),
             group2 |-> SubSeq(s, t, after - 1),
             last |-> after - 1]
       ELSE NoMatch

\* replacer of replace_table_references; a table name is one word lexeme here
TableRefReplacer(match, cte_names, block_tables) ==
    LET keyword == match.group1
        table == match.group2[1]
    IN IF Lower(table) \in cte_names THEN match.group0
       ELSE IF block_tables # {} /\ Lower(table) \in block_tables THEN match.group0
       ELSE IF Upper(table) = "TABLE" THEN match.group0
       ELSE IF Lower(table) \in ExternalTables
       THEN keyword \o <<" ", "STG", ".", "P", "{{", "praktijk_agb", "}}", ".", table>>
       ELSE keyword \o <<" ", "{{", " ", "ref", "(", "'", table, "'", ")", " ", "}}">>

RECURSIVE TableRefSubFrom(_, _, _, _)
\* re.sub(pattern, replacer, sql, flags=re.IGNORECASE) from lexeme i on
TableRefSubFrom(s, i, cte_names, block_tables) ==
    LET starts == {k \in i..Len(s) : TableRefMatchAt(s, k).found}
        match == TableRefMatchAt(s, Min(starts))
    IN IF starts = {} THEN SubSeq(s, i, Len(s))
       ELSE SubSeq(s, i, Min(starts) - 1) \o TableRefReplacer(match, cte_names, block_tables)
            \o TableRefSubFrom(s, match.last + 1, cte_names, block_tables)

\* the CTE names replace_table_references finds in the statement
DetectedCteNames(s) == CteNamesFrom(SqlNoComments(s), 1)

replace_table_references(s, block_tables) ==
    TableRefSubFrom(s, 1, DetectedCteNames(s), block_tables)

----------------------------------------------------------------------------
(* Inputs of the table-reference checks:                                   *)
(*   [WITH c1 AS (SELECT 1)] SELECT * FROM <t1><f1> [<join> <t2><on>]      *)

RefInputs ==
    [cte : {"none", "with", "comment"},
     from : {"FROM", "from"},
     t1 : {"patient", "Patient", "orders", "c1", "blk", "TABLE"},
     f1 : {"none", "alias", "as_alias", "dot", "call", "cast"},
     join : {"none", "JOIN", "LEFT JOIN", "JOIN LATERAL"},
     t2 : {"orders", "patient"},
     on : {"none", "as_on_paren"},
     block_tables : {{}, {"blk"}}]

RefInputOk(d) == d.join = "none" => (d.t2 = "orders" /\ d.on = "none")

RenderCte(d) ==
    CASE d.cte = "with" ->
           <<"WITH", " ", "c1", " ", "AS", " ", "(", "SELECT", " ", "1", ")", " ">>
      [] d.cte = "comment" ->
           <<"--", " ", "c1", " ", "AS", " ", "(", "SELECT", " ", "1", ")", "\n">>
      [] OTHER -> <<>>

RenderFollow(f) ==
    CASE f = "alias" -> <<" ", "p">>
      [] f = "as_alias" -> <<" ", "AS", " ", "p">>
      [] f = "dot" -> <<".", "x">>
      [] f = "call" -> <<"(", "1", ")">>
      [] f = "cast" -> <<"::", "text">>
      [] OTHER -> <<>>

RenderJoinKw(j) ==
    CASE j = "JOIN" -> <<"JOIN">>
      [] j = "LEFT JOIN" -> <<"LEFT", " ", "JOIN">>
      [] OTHER -> <<"JOIN", " ", "LATERAL">>

RenderOn(o) ==
    IF o = "as_on_paren"
    THEN <<" ", "AS", " ", "o", " ", "ON", " ", "(", "o", ".", "id", " ", "=", " ", "1", ")">>
    ELSE <<>>

\* the statement, with slot1 and slot2 standing where "<keyword> <table>" stands
RenderRefStmtWith(d, slot1, slot2) ==
    RenderCte(d) \o <<"SELECT", " ", "*", " ">> \o slot1 \o RenderFollow(d.f1)
    \o (IF d.join = "none" THEN <<>> ELSE <<" ">> \o slot2 \o RenderOn(d.on))

RenderRefStmt(d) ==
    RenderRefStmtWith(d, <<d.from, " ", d.t1>>, RenderJoinKw(d.join) \o <<" ", d.t2>>)

InitRefs ==
    /\ desc \in {d \in RefInputs : RefInputOk(d)}
    /\ sql_in = RenderRefStmt(desc)
    /\ pc = "start"
    /\ sql = <<>>
    /\ converted = None
    /\ generated = None
    /\ hashseed = 0
    /\ RestIdle

ReplaceRefs ==
    /\ pc = "start"
    /\ converted' = replace_table_references(sql_in, desc.block_tables)
    /\ pc' = "done"
    /\ UNCHANGED <<desc, sql_in, sql, generated, hashseed, idle>>

NextRefs == ReplaceRefs

SpecRefs == InitRefs /\ [][NextRefs]_vars

\* the classification of one "<keyword> <table><follow>" as the claim states it
ClassifiedRef(d, keyword, table, skipped) ==
    IF skipped THEN keyword \o <<" ", table>>
    ELSE IF \/ (d.cte = "with" /\ Lower(table) = "c1")
            \/ Lower(table) \in d.block_tables
            \/ table = "TABLE"
    THEN keyword \o <<" ", table>>
    ELSE IF Lower(table) \in ExternalTables
    THEN keyword \o <<" ", "STG", ".", "P", "{{", "praktijk_agb", "}}", ".", table>>
    ELSE keyword \o <<" ", "{{", " ", "ref", "(", "'", table, "'", ")", " ", "}}">>

ExpectedRefs(d) ==
    RenderRefStmtWith(d,
        ClassifiedRef(d, <<d.from>>, d.t1, d.f1 \in {"dot", "call", "cast"}),
        ClassifiedRef(d, RenderJoinKw(d.join), d.t2, d.join = "JOIN LATERAL"))

\* C6: every identifier after FROM/JOIN (not followed by ".", "(" or "::", not
\* after JOIN LATERAL) is left unchanged if it is a CTE name of the statement, a
\* block table or the keyword TABLE, and otherwise becomes
\* STG.P{{praktijk_agb}}.<name> if it is in the external table catalog, else
\* {{ ref('<name>') }}; a catalog table that is no CTE and no block table is always
\* rewritten to the external form.
C6_RefsClassified ==
    pc = "done" => converted = ExpectedRefs(desc)

----------------------------------------------------------------------------
(* parse_crosstab_sql and handle_crosstab: the crosstab decomposer *)

RECURSIVE DollarBlocks(_, _)
\* re.findall(pattern_1, sql_content, re.DOTALL), pattern_1 = \$\$(.*?)\$\$
DollarBlocks(s, i) ==
    LET opens == {a \in i..Len(s) : s[a] = "$$"}
        a == Min(opens)
        closes == {b \in (a + 1)..Len(s) : s[b] = "$$"}
        b == Min(closes)
    IN IF opens = {} THEN <<>>
       ELSE IF closes = {} THEN <<>>
       ELSE <<SubSeq(s, a + 1, b - 1)>> \o DollarBlocks(s, b + 1)

\* 'JOIN' in pivot_statement.upper()
ContainsJoin(s) == \E i \in 1..Len(s) : Upper(s[i]) \in {"JOIN", "JOINED"}

\* re.search(r'<first>(.*?)<second>', s, re.IGNORECASE | re.DOTALL); the second
\* keyword is written without \b, so a word that begins with it ends the group
SearchBetween(s, first, second) ==
    LET Ends(i) == {j \in (i + 1)..Len(s) : Upper(s[j]) \in second}
        starts == {i \in 1..Len(s) : Upper(s[i]) = first /\ Ends(i) # {}}
        i0 == Min(starts)
    IN IF starts = {} THEN NoMatch
       ELSE [found |-> TRUE, group1 |-> SubSeq(s, i0 + 1, Min(Ends(i0)) - 1)]

\* pattern_3 = SELECT(.*?)FROM
SearchSelectFrom(s) == SearchBetween(s, "SELECT", {"FROM"})

\* pattern_4 = FROM(.*?)ORDER
SearchFromOrder(s) == SearchBetween(s, "FROM", {"ORDER", "ORDERS"})

\* re.search(pattern_6, cte_statement, re.IGNORECASE | re.DOTALL),
\* pattern_6 = (WITH\s+.*\))\s*(?=SELECT|FROM|$): .* is greedy, so group 1 ends
\* at the last ")" that is followed by SELECT, FROM or the end of the text
SearchWith(s) ==
    LET Closers(i) ==
            {k \in (i + 2)..Len(s) :
                /\ s[k] = ")"
                /\ (SkipWs(s, k + 1) > Len(s)
                    \/ Upper(s[SkipWs(s, k + 1)]) \in {"SELECT", "FROM"})}
        starts == {i \in 1..Len(s) :
                      /\ Upper(s[i]) = "WITH"
                      /\ i + 1 <= Len(s)
                      /\ IsWs(s[i + 1])
                      /\ Closers(i) # {}}
        i0 == Min(starts)
        k0 == Max(Closers(i0))
    IN IF starts = {} THEN NoMatch
       ELSE [found |-> TRUE,
             group1 |-> SubSeq(s, i0, k0),
             end |-> SkipWs(s, k0 + 1)]

\* re.search(pattern_2, sql_content, re.IGNORECASE | re.DOTALL),
\* pattern_2 = \)\s*as\s+(?:\w+\s*)?\(\s*(.*?)\s*\)
SearchAsClause(s) ==
    LET AsAt(i) == SkipWs(s, i + 1)
        NameAt(i) == SkipWs(s, AsAt(i) + 1)
        OpenAt(i) == IF NameAt(i) <= Len(s) /\ IsWord(s[NameAt(i)])
                     THEN SkipWs(s, WordEnd(s, NameAt(i)))
                     ELSE NameAt(i)
        Closers(i) == {k \in (OpenAt(i) + 1)..Len(s) : s[k] = ")"}
        Fits(i) ==
            /\ s[i] = ")"
            /\ AsAt(i) <= Len(s)
            /\ Upper(s[AsAt(i)]) = "AS"
            /\ NameAt(i) > AsAt(i) + 1
            /\ OpenAt(i) <= Len(s)
            /\ s[OpenAt(i)] = "("
            /\ Closers(i) # {}
        starts == {i \in 1..Len(s) : Fits(i)}
        i0 == Min(starts)
    IN IF starts = {} THEN NoMatch
       ELSE [found |-> TRUE,
             group1 |-> Strip(SubSeq(s, OpenAt(i0) + 1, Min(Closers(i0)) - 1))]

\* str.replace(ch, '') for a one-character ch
RemoveAll(s, ch) == SelectSeq(s, LAMBDA t : t # ch)

RECURSIVE SplitOn(_, _)
\* str.split(sep) for a one-character sep
SplitOn(s, sep) ==
    LET at == {i \in 1..Len(s) : s[i] = sep}
    IN IF at = {} THEN <<s>>
       ELSE <<SubSeq(s, 1, Min(at) - 1)>> \o SplitOn(SubSeq(s, Min(at) + 1, Len(s)), sep)

\* item.strip().split(' ')[0]
FirstToken(item) ==
    LET t == Strip(item)
        spaces == {i \in 1..Len(t) : IsWs(t[i])}
    IN IF spaces = {} THEN t ELSE SubSeq(t, 1, Min(spaces) - 1)

RECURSIVE MapFirstToken(_)
MapFirstToken(items) ==
    IF Len(items) = 0 THEN <<>>
    ELSE <<FirstToken(items[1])>> \o MapFirstToken(Tail(items))

\* output_cols of parse_crosstab_sql, from group 1 of the AS (...) clause
OutputCols(group1) ==
    MapFirstToken(SplitOn(Strip(RemoveAll(RemoveAll(Strip(group1), "("), ";")), ","))

RECURSIVE SplitSelectCols(_, _, _, _)
\* the character loop over cte_select_statement: split on "," at depth 0 of ()/[]
SplitSelectCols(s, i, parent_count, current_col) ==
    IF i > Len(s)
    THEN (IF Strip(current_col) # <<>> THEN <<Strip(current_col)>> ELSE <<>>)
    ELSE IF s[i] \in {"(", "["}
    THEN SplitSelectCols(s, i + 1, parent_count + 1, Append(current_col, s[i]))
    ELSE IF s[i] \in {")", "]"}
    THEN SplitSelectCols(s, i + 1, parent_count - 1, Append(current_col, s[i]))
    ELSE IF s[i] = "," /\ parent_count = 0
    THEN <<Strip(current_col)>> \o SplitSelectCols(s, i + 1, parent_count, <<>>)
    ELSE SplitSelectCols(s, i + 1, parent_count, Append(current_col, s[i]))

\* the matches of \s+as\s+ (re.IGNORECASE) in item: the positions of "as"
AsSeparators(item) ==
    {i \in 2..(Len(item) - 1) :
        Upper(item[i]) = "AS" /\ IsWs(item[i - 1]) /\ IsWs(item[i + 1])}

\* re.split(r'\s+as\s+', item, flags=re.IGNORECASE)[1].strip()
SecondAsPiece(item) ==
    LET seps == AsSeparators(item)
        first == Min(seps)
        from == SkipWs(item, first + 1)
        later == {i \in seps : i > from}
        upto == IF later = {} THEN Len(item) ELSE Min(later) - 1
    IN Strip(SubSeq(item, from, upto))

\* one entry of input_cols
InputCol(item) ==
    IF AsSeparators(item) # {} THEN SecondAsPiece(item) ELSE FirstToken(item)

RECURSIVE InputCols(_)
InputCols(select_cols) ==
    IF Len(select_cols) = 0 THEN <<>>
    ELSE <<InputCol(select_cols[1])>> \o InputCols(Tail(select_cols))

Range(f) == {f[i] : i \in DOMAIN f}

RECURSIVE Factorial(_)
Factorial(n) == IF n <= 1 THEN 1 ELSE n * Factorial(n - 1)

RECURSIVE NthPermutation(_, _)
\* the k-th arrangement of the sequence items, k in 0..Len(items)!-1
NthPermutation(items, k) ==
    IF Len(items) = 0 THEN <<>>
    ELSE LET f == Factorial(Len(items) - 1)
             idx == (k \div f) + 1
             rest == [j \in 1..(Len(items) - 1) |->
                         IF j < idx THEN items[j] ELSE items[j + 1]]
         IN <<items[idx]>> \o NthPermutation(rest, k % f)

RECURSIVE SetToSeq(_)
SetToSeq(set_value) ==
    IF set_value = {} THEN <<>>
    ELSE LET x == CHOOSE x \in set_value : TRUE
         IN <<x>> \o SetToSeq(set_value \ {x})

\* list(set_value): the elements in the order the hash seed of the process gives
ListOfSet(set_value, seed) ==
    NthPermutation(SetToSeq(set_value), seed % Factorial(Cardinality(set_value)))

\* str.rstrip(', ')
RStripCommaSpace(s) ==
    LET keep == {i \in 1..Len(s) : s[i] \notin {",", " ", "        "}}
    IN IF keep = {} THEN <<>> ELSE SubSeq(s, 1, Max(keep))

\* whether s holds name at position i
HoldsAt(s, i, name) ==
    /\ i + Len(name) - 1 <= Len(s)
    /\ SubSeq(s, i, i + Len(name) - 1) = name

RECURSIVE ReplaceFrom(_, _, _, _)
\* str.replace(name, replacement) from lexeme i on
ReplaceFrom(s, i, name, replacement) ==
    LET starts == {k \in i..Len(s) : HoldsAt(s, k, name)}
    IN IF starts = {} THEN SubSeq(s, i, Len(s))
       ELSE SubSeq(s, i, Min(starts) - 1) \o replacement
            \o ReplaceFrom(s, Min(starts) + Len(name), name, replacement)

RECURSIVE FindTables(_, _)
\* re.findall(pattern_5, cte_statement, ..): group 2 of every match
FindTables(s, i) ==
    LET starts == {k \in i..Len(s) : TableRefMatchAt(s, k).found}
        match == TableRefMatchAt(s, Min(starts))
    IN IF starts = {} THEN <<>>
       ELSE <<match.group2>> \o FindTables(s, match.last + 1)

RECURSIVE RefAllTables(_, _)
\* for t in table: cte_statement = cte_statement.replace(t[1], "{{ ref('" + t[1] + "') }}")
RefAllTables(cte_statement, table) ==
    IF Len(table) = 0 THEN cte_statement
    ELSE RefAllTables(
             ReplaceFrom(cte_statement, 1, table[1],
                 <<"{{", " ", "ref", "(", "'">> \o table[1] \o <<"'", ")", " ", "}}">>),
             Tail(table))

\* str_dbt_get_column_values with its three placeholders filled in
DbtGetColumnValues(pivot_col, from_statements, value_col) ==
    <<"{{", " ", "dbt_utils", ".", "pivot", "(", "'">> \o pivot_col
    \o <<"'", ",", "        ", "dbt_utils", ".", "get_column_values", "(", "ref", "(", "'">>
    \o from_statements
    \o <<"'", ")", ",", "'", "categorie", "'", ",", "default", "=", "[", "]", ")", ",",
         "        ", "agg", "=", "'", "'", ",",
         "        ", "then_value", "=", "'">>
    \o value_col
    \o <<"'", ",", "        ", "else_value", "=", "\"", "ARRAY_CONSTRUCT", "(", ")", "\"", ",",
         "        ", "quote_identifiers", "=", "False", ")", "}}", " ">>

Returned(text) == [raised |-> FALSE, value |-> text]

Raised == [raised |-> TRUE, value |-> <<>>]

\* lines 106-140: the two column lists, the table references and the query
ParseEmit(with_statement, cte_statement, pivot_col, from_statements, cols_to_pivot, select_col_clean) ==
    IF Len(cols_to_pivot) < 2 THEN Raised
    ELSE Returned(
             (IF with_statement # None
              THEN with_statement \o <<"\n ", ",", "cte1", " ", "AS", " ", "(", "\n">>
                   \o cte_statement \o <<"\n", ")", "\n">>
              ELSE <<"WITH", " ", "cte1", " ", "AS", " ", "(", "\n">>
                   \o RefAllTables(cte_statement, FindTables(cte_statement, 1))
                   \o <<")", "\n">>)
             \o <<"SELECT", " ">> \o select_col_clean
             \o <<"\n", ",", " ">>
             \o DbtGetColumnValues(pivot_col, from_statements, cols_to_pivot[2])
             \o <<"\n", "FROM", " ", "cte1", "\n", "GROUP", " ", "BY", " ">>
             \o select_col_clean)

\* lines 107-119 and 131: cols_to_pivot, cols_to_select and select_col_clean
ParseColumns(with_statement, cte_statement, pivot_col, from_statements, output_cols, input_cols, seed) ==
    ParseEmit(with_statement, cte_statement, pivot_col, from_statements,
              ListOfSet(Range(input_cols) \ Range(output_cols), seed),
              Strip(RStripCommaSpace(
                  Join(ListOfSet(Range(input_cols) \cap Range(output_cols), seed \div 2),
                       <<",", " ">>))))

\* lines 71-104: the SELECT list of the CTE statement and its column names
ParseSelect(with_statement, cte_statement, pivot_col, from_statements, output_cols, m_cte_select_statement, seed) ==
    IF ~m_cte_select_statement.found THEN Returned(<<>>)
    ELSE ParseColumns(with_statement, cte_statement, pivot_col, from_statements,
                      output_cols,
                      InputCols(SplitSelectCols(Strip(m_cte_select_statement.group1),
                                                1, 0, <<>>)),
                      seed)

\* lines 37-42: the WITH block is split off the CTE statement
ParseWith(cte_statement, m_with_match, pivot_col, from_statements, output_cols, seed) ==
    IF m_with_match.found
    THEN ParseSelect(m_with_match.group1, cte_statement, pivot_col, from_statements,
                     output_cols, SearchSelectFrom(cte_statement), seed)
    ELSE ParseSelect(None, cte_statement, pivot_col, from_statements, output_cols,
                     SearchSelectFrom(cte_statement), seed)

\* lines 30-67: the searches in the pivot statement and for the AS (...) clause
ParseMatches(cte_statement, m_pivot_col, m_with_match, m_from_statements, m_statement_as, seed) ==
    IF ~m_pivot_col.found THEN Returned(<<>>)
    ELSE IF ~m_from_statements.found THEN Returned(<<>>)
    ELSE IF ~m_statement_as.found THEN Returned(<<>>)
    ELSE ParseWith(IF m_with_match.found
                   THEN Strip(SubSeq(cte_statement, m_with_match.end, Len(cte_statement)))
                   ELSE cte_statement,
                   m_with_match,
                   Strip(m_pivot_col.group1),
                   Strip(m_from_statements.group1),
                   OutputCols(m_statement_as.group1),
                   seed)

\* lines 19-27: the two statements and the JOIN check
ParseStatements(sql_content, statements, seed) ==
    IF Len(statements) < 2 THEN Returned(<<>>)
    ELSE IF ContainsJoin(statements[2]) THEN Returned(<<>>)
    ELSE ParseMatches(statements[1],
                      SearchSelectFrom(statements[2]),
                      SearchWith(statements[1]),
                      SearchFromOrder(statements[2]),
                      SearchAsClause(sql_content),
                      seed)

\* parse_crosstab_sql(sql_content); seed is the hash seed of the process
parse_crosstab_sql(sql_content, seed) ==
    ParseStatements(sql_content, DollarBlocks(sql_content, 1), seed)

\* the comment handle_crosstab returns when parse_crosstab_sql raises
CrosstabPlaceholder ==
    <<"{#", " ", "WARNING", ":", " ", "crosstab", "(", ")", " ", "block", " ",
      "could", " ", "not", " ", "be", " ", "converted", ",", " ", "skipped", " ",
      "for", " ", "dbt", " ", "compile", " ", "#}">>

\* handle_crosstab(sql)
handle_crosstab(s, seed) ==
    Only({IF result.raised THEN CrosstabPlaceholder ELSE result.value :
          result \in {parse_crosstab_sql(StripLineComments(s, 1), seed)}})

----------------------------------------------------------------------------
(* convert_postgres_to_snowflake: the pre-passes, the parse and the generation *)

\* 'crosstab' in sql.lower()
ContainsCrosstab(s) == \E i \in 1..Len(s) : Lower(s[i]) = "crosstab"

\* every run of whitespace lexemes becomes one blank
CollapseWs(s) ==
    LET marked == [i \in 1..Len(s) |->
                      IF ~IsWs(s[i]) THEN s[i]
                      ELSE IF i > 1 /\ IsWs(s[i - 1]) THEN "<dropped>" ELSE " "]
    IN SelectSeq(marked, LAMBDA t : t # "<dropped>")

\* parsed.sql(dialect=FixedSnowflake, pretty=True): the library re-emits the
\* statement with its own layout; here every run of whitespace becomes one blank
Transpiled(s) == CollapseWs(Strip(s))

\* the shapes of crosstab statement the decomposer is given
MaxCols == 5

CrosstabColumns == <<<<"id">>, <<"name">>, <<"categorie">>, <<"val">>, <<"extra">>>>

CrosstabShapes ==
    {"ok", "no_block", "one_block", "pivot_join", "pivot_no_select",
     "pivot_no_order", "no_as", "cte_no_from"}

\* cols: which of CrosstabColumns the CTE selects; outs: how many of the first
\* columns the AS (...) clause declares
CrosstabInputs ==
    [kind : {"crosstab"},
     shape : CrosstabShapes,
     distinct_on : BOOLEAN,
     with_clause : BOOLEAN,
     cols : {c \in SUBSET (1..MaxCols) : 1 \in c /\ 4 \in c},
     outs : {1, 2}]

RECURSIVE PickColumns(_, _)
PickColumns(cols, i) ==
    IF i > Len(CrosstabColumns) THEN <<>>
    ELSE (IF i \in cols THEN <<CrosstabColumns[i]>> ELSE <<>>) \o PickColumns(cols, i + 1)

\* inputColumnNames of the statement, in the order of the CTE SELECT list
CteColumns(d) == PickColumns(d.cols, 1)

\* declaredOutputColumns of the statement
DeclaredColumns(d) == SubSeq(CrosstabColumns, 1, d.outs)

RenderCteStatement(d) ==
    (IF d.with_clause
     THEN <<"WITH", " ", "base", " ", "AS", " ", "(", "SELECT", " ", "*", " ", "FROM",
            " ", "src", ")", " ">>
     ELSE <<>>)
    \o <<"SELECT", " ">>
    \o (IF d.distinct_on
        THEN <<"DISTINCT", " ", "ON", " ", "(", "id", ")", " ">> ELSE <<>>)
    \o Join(CteColumns(d), <<",", " ">>)
    \o (IF d.shape = "cte_no_from" THEN <<>>
        ELSE <<" ", "FROM", " ", (IF d.with_clause THEN "base" ELSE "tbl")>>)
    \o <<" ", "ORDER", " ", "BY", " ", "1">>

RenderPivotStatement(d) ==
    (IF d.shape = "pivot_no_select" THEN <<"VALUES", " ", "(", "1", ")">>
     ELSE <<"SELECT", " ", "DISTINCT", " ", "categorie", " ", "FROM", " ", "cats">>)
    \o (IF d.shape = "pivot_join"
        THEN <<" ", "JOIN", " ", "x", " ", "ON", " ", "1", "=", "1">> ELSE <<>>)
    \o (IF d.shape = "pivot_no_order" THEN <<>> ELSE <<" ", "ORDER", " ", "BY", " ", "1">>)

RECURSIVE RenderColumnDefs(_)
RenderColumnDefs(names) ==
    IF Len(names) = 0 THEN <<>>
    ELSE names[1] \o <<" ", "text">>
         \o (IF Len(names) = 1 THEN <<>> ELSE <<",", " ">> \o RenderColumnDefs(Tail(names)))

RenderCrosstabStmt(d) ==
    <<"SELECT", " ", "*", " ", "FROM", " ", "crosstab", "(">>
    \o (IF d.shape = "no_block" THEN <<>>
        ELSE <<"$$">> \o RenderCteStatement(d) \o <<"$$">>)
    \o (IF d.shape \in {"no_block", "one_block"} THEN <<>>
        ELSE <<",", " ", "$$">> \o RenderPivotStatement(d) \o <<"$$">>)
    \o <<")">>
    \o (IF d.shape = "no_as" THEN <<>>
        ELSE <<" ", "AS", " ", "ct", "(">> \o RenderColumnDefs(DeclaredColumns(d)) \o <<")">>)

----------------------------------------------------------------------------
(* One call of convert_postgres_to_snowflake(sql) *)

HashSeeds == 4

PipelineUnnestInputs ==
    {[kind |-> "unnest", d |-> d] :
        d \in {u \in UnnestInputs : Len(u.elems) <= 1 /\ u.kw = "SELECT"}}

PipelineSeriesInputs ==
    {[kind |-> "series", d |-> d] :
        d \in {g \in SeriesInputs :
                  /\ g.fname = "generate_series"
                  /\ g.names.alias = "s"
                  /\ g.step.kind \in {"num", "absent"}}}

StatementInputs ==
    CrosstabInputs \cup PipelineUnnestInputs \cup PipelineSeriesInputs
    \cup {[kind |-> "plain"]}

RenderStatement(d) ==
    CASE d.kind = "crosstab" -> RenderCrosstabStmt(d)
      [] d.kind = "unnest" -> RenderUnnestStmt(d.d)
      [] d.kind = "series" -> RenderSeriesStmt(d.d)
      [] OTHER -> <<"SELECT", " ", "1">>

Init ==
    /\ desc \in StatementInputs
    /\ hashseed \in 0..(HashSeeds - 1)
    /\ sql_in = RenderStatement(desc)
    /\ sql = sql_in
    /\ pc = "crosstab"
    /\ converted = None
    /\ generated = None
    /\ RestIdle

\* lines 110-111: the crosstab pre-pass
PrepassCrosstab ==
    /\ pc = "crosstab"
    /\ sql' = IF ContainsCrosstab(sql) THEN handle_crosstab(sql, hashseed) ELSE sql
    /\ pc' = "unnest"
    /\ UNCHANGED <<desc, sql_in, converted, generated, hashseed, idle>>

\* line 114
PrepassUnnest ==
    /\ pc = "unnest"
    /\ sql' = convert_unnest_array_to_values(sql)
    /\ pc' = "series"
    /\ UNCHANGED <<desc, sql_in, converted, generated, hashseed, idle>>

\* line 117
PrepassSeries ==
    /\ pc = "series"
    /\ sql' = convert_generate_series_to_snowflake(sql)
    /\ pc' = "parse"
    /\ UNCHANGED <<desc, sql_in, converted, generated, hashseed, idle>>

\* line 120: sqlglot.parse_one returns a tree
ParseOk ==
    /\ pc = "parse"
    /\ pc' = "generate"
    /\ UNCHANGED <<desc, sql_in, sql, converted, generated, hashseed, idle>>

\* line 120: sqlglot.parse_one raises
ParseFails ==
    /\ pc = "parse"
    /\ pc' = "except"
    /\ UNCHANGED <<desc, sql_in, sql, converted, generated, hashseed, idle>>

\* lines 123-125: the tree is rendered and returned
GenerateOk ==
    /\ pc = "generate"
    /\ converted' = Transpiled(sql)
    /\ pc' = "returned"
    /\ UNCHANGED <<desc, sql_in, sql, generated, hashseed, idle>>

\* line 123: the generator raises
GenerateFails ==
    /\ pc = "generate"
    /\ pc' = "except"
    /\ UNCHANGED <<desc, sql_in, sql, converted, generated, hashseed, idle>>

\* lines 126-128: the except clause
HandleException ==
    /\ pc = "except"
    /\ stderr' = Append(stderr, "[Error] Failed to convert SQL")
    /\ converted' = sql
    /\ pc' = "returned"
    /\ UNCHANGED <<desc, sql_in, sql, generated, hashseed,
                   stdout, written, main_block_tables, file_idx, query_idx>>

Next ==
    \/ PrepassCrosstab
    \/ PrepassUnnest
    \/ PrepassSeries
    \/ ParseOk
    \/ ParseFails
    \/ GenerateOk
    \/ GenerateFails
    \/ HandleException

Spec == Init /\ [][Next]_vars

----------------------------------------------------------------------------
(* Properties of one call of convert_postgres_to_snowflake *)

\* the call went through its except clause
ConversionFailed == stderr # <<>>

\* C1: whenever the conversion fails, the text it returns is the text the
\* caller passed in, also when a pre-pass had rewritten it before the failure.
C1_FailureReturnsInput ==
    (pc = "returned" /\ ConversionFailed) => converted = sql_in

\* pivotAxisColumns of the statement: inputColumnNames minus declaredOutputColumns
PivotAxisColumns(d) ==
    {CteColumns(d)[i] : i \in 1..Len(CteColumns(d))}
    \ {DeclaredColumns(d)[i] : i \in 1..Len(DeclaredColumns(d))}

\* the text is a pivot query: it calls the dbt_utils.pivot macro
IsPivotQuery(text) ==
    \E i \in 1..(Len(text) - 2) :
        text[i] = "dbt_utils" /\ text[i + 1] = "." /\ text[i + 2] = "pivot"

\* the decomposition failures: a missing $$ block, a JOIN in the pivot
\* statement, a missing SELECT..FROM, FROM..ORDER or AS (...) clause, or a
\* number of pivot-axis columns other than two
DecompositionFails(d) ==
    \/ d.shape # "ok"
    \/ Cardinality(PivotAxisColumns(d)) # 2

\* the crosstab pre-pass has just run on a crosstab statement
AfterCrosstabStep == pc = "unnest" /\ desc.kind = "crosstab"

\* C2: every decomposition failure makes the crosstab pre-pass return the
\* placeholder comment, never an empty text or a pivot query.
C2_FailureGivesPlaceholder ==
    (AfterCrosstabStep /\ DecompositionFails(desc)) => sql = CrosstabPlaceholder

\* C3: no pivot query is emitted for a statement whose pivot statement has a
\* JOIN or whose CTE statement has a DISTINCT ON ( construct.
C3_JoinAndDistinctOnRejected ==
    (AfterCrosstabStep /\ (desc.shape = "pivot_join" \/ desc.distinct_on))
        => ~IsPivotQuery(sql)

\* C4: a pivot query is emitted only if there are exactly two pivot-axis columns.
C4_PivotOnlyWithTwoAxisColumns ==
    (AfterCrosstabStep /\ IsPivotQuery(sql))
        => Cardinality(PivotAxisColumns(desc)) = 2

\* the statement of the example: CTE columns id, name, categorie, val and
\* declared output columns id, name
IsOrderExample(d) ==
    /\ d.kind = "crosstab"
    /\ d.shape = "ok"
    /\ ~d.distinct_on
    /\ CteColumns(d) = <<<<"id">>, <<"name">>, <<"categorie">>, <<"val">>>>
    /\ DeclaredColumns(d) = <<<<"id">>, <<"name">>>>

\* the list after the last GROUP BY of the text
GroupByList(text) ==
    LET at == {i \in 1..(Len(text) - 3) :
                  text[i] = "GROUP" /\ IsWs(text[i + 1]) /\ text[i + 2] = "BY"}
    IN IF at = {} THEN None ELSE SubSeq(text, Max(at) + 4, Len(text))

\* the argument then_value='...' of the pivot macro
ThenValue(text) ==
    LET at == {i \in 1..(Len(text) - 3) : text[i] = "then_value" /\ text[i + 1] = "="}
    IN IF at = {} THEN "<None>" ELSE text[Min(at) + 3]

\* C5: for the example statement the GROUP BY list is id, name in that order
\* and the aggregated value column is val, on every run.
C5_ColumnsInSelectOrder ==
    (pc = "unnest" /\ IsOrderExample(desc))
        => /\ GroupByList(sql) = <<"id", ",", " ", "name">>
           /\ ThenValue(sql) = "val"

----------------------------------------------------------------------------
(* general.py and dbt_wrapper.py: the text steps of a batch *)

\* a view name that was not found (None)
NoViewName == ""

NoViewMatch == [found |-> FALSE, name_at |-> 0]

\* CREATE\s+[MATERIALIZED\s+]VIEW\s+(\w+) matched with CREATE at lexeme i
CreateViewAt(s, i, materialized) ==
    LET a == SkipWs(s, i + 1)
        v == IF materialized THEN SkipWs(s, a + 1) ELSE a
        n == SkipWs(s, v + 1)
    IN IF /\ Upper(s[i]) = "CREATE"
          /\ a > i + 1
          /\ a <= Len(s)
          /\ (materialized => (Upper(s[a]) = "MATERIALIZED" /\ v > a + 1 /\ v <= Len(s)))
          /\ Upper(s[v]) = "VIEW"
          /\ n > v + 1
          /\ n <= Len(s)
          /\ IsWord(s[n])
       THEN [found |-> TRUE, name_at |-> n]
       ELSE NoViewMatch

extract_view_name_from_query(query) ==
    LET mat == {i \in 1..Len(query) : CreateViewAt(query, i, TRUE).found}
        plain == {i \in 1..Len(query) : CreateViewAt(query, i, FALSE).found}
    IN IF mat # {} THEN query[CreateViewAt(query, Min(mat), TRUE).name_at]
       ELSE IF plain # {} THEN query[CreateViewAt(query, Min(plain), FALSE).name_at]
       ELSE NoViewName

\* position after CREATE\s+(MATERIALIZED\s+)?VIEW\s+\w+\s+AS\s* matched at i, 0 when
\* it does not match there
CreateViewHeadEnd(s, i) ==
    LET head == IF CreateViewAt(s, i, TRUE).found THEN CreateViewAt(s, i, TRUE)
                ELSE CreateViewAt(s, i, FALSE)
        w == SkipWs(s, head.name_at + 1)
    IN IF head.found /\ w > head.name_at + 1 /\ w <= Len(s) /\ Upper(s[w]) = "AS"
       THEN SkipWs(s, w + 1)
       ELSE 0

\* re.sub(r'CREATE\s+(MATERIALIZED\s+)?VIEW\s+\w+\s+AS\s*', '', converted_sql, count=1)
RemoveCreateView(s) ==
    LET starts == {i \in 1..Len(s) : CreateViewHeadEnd(s, i) > 0}
    IN IF starts = {} THEN s
       ELSE SubSeq(s, 1, Min(starts) - 1) \o SubSeq(s, CreateViewHeadEnd(s, Min(starts)), Len(s))

\* position after \b(\w+)\s+AS\s*\( matched at i, 0 when it does not match there
CreatedTableEnd(s, i) ==
    LET a == SkipWs(s, i + 1)
        b == SkipWs(s, a + 1)
    IN IF /\ IsWord(s[i])
          /\ a > i + 1
          /\ a <= Len(s)
          /\ Upper(s[a]) = "AS"
          /\ b <= Len(s)
          /\ s[b] = "("
       THEN b + 1
       ELSE 0

RECURSIVE CreatedTablesFrom(_, _)
\* convert_pry_to_dbt: the names found by re.finditer from lexeme i on
CreatedTablesFrom(s, i) ==
    LET starts == {k \in i..Len(s) : CreatedTableEnd(s, k) > 0}
        table_name == Lower(s[Min(starts)])
    IN IF starts = {} THEN {}
       ELSE (IF table_name \in NotCteNames THEN {} ELSE {table_name})
            \cup CreatedTablesFrom(s, CreatedTableEnd(s, Min(starts)))

\* position after the run of [\w\-] lexemes that starts at i
IncludeNameEnd(s, i) ==
    CHOOSE j \in i..(Len(s) + 1) :
        /\ \A k \in i..(j - 1) : IsWord(s[k]) \/ s[k] = "-"
        /\ (j = Len(s) + 1 \/ ~(IsWord(s[j]) \/ s[j] = "-"))

NoInclude == [found |-> FALSE, last |-> 0, name |-> <<>>]

\* {%-?\s*include\s+['"]([\w\-]+)\.pry['"]\s*%} matched at lexeme i
IncludeMatchAt(s, i) ==
    LET kw == SkipWs(s, i + 1)
        q1 == SkipWs(s, kw + 1)
        ends == {e \in (q1 + 2)..(IncludeNameEnd(s, q1 + 1)) :
                    /\ e + 2 <= Len(s)
                    /\ s[e] = "."
                    /\ s[e + 1] = "pry"
                    /\ s[e + 2] \in {"'", "\""}
                    /\ SkipWs(s, e + 3) <= Len(s)
                    /\ s[SkipWs(s, e + 3)] = "%}"}
    IN IF /\ s[i] \in {"{%", "{%-"}
          /\ kw <= Len(s)
          /\ s[kw] = "include"
          /\ q1 > kw + 1
          /\ q1 < Len(s)
          /\ s[q1] \in {"'", "\""}
          /\ ends # {}
       THEN [found |-> TRUE, last |-> SkipWs(s, Max(ends) + 3),
             name |-> SubSeq(s, q1 + 1, Max(ends) - 1)]
       ELSE NoInclude

RECURSIVE IncludeSubFrom(_, _)
IncludeSubFrom(s, i) ==
    LET starts == {k \in i..Len(s) : IncludeMatchAt(s, k).found}
        match == IncludeMatchAt(s, Min(starts))
    IN IF starts = {} THEN SubSeq(s, i, Len(s))
       ELSE SubSeq(s, i, Min(starts) - 1)
            \o <<"{{", " ">> \o match.name \o <<"(", ")", " ", "}}">>
            \o IncludeSubFrom(s, match.last + 1)

\* re.sub(r"{%-?\s*include\s+['\"]([\w\-]+)\.pry['\"]\s*%}", r"{{ \1() }}", sql)
preprocess_sql(s) == IncludeSubFrom(s, 1)

\* f"__DBT_MACRO_{k}__"
MacroPlaceholder(k) ==
    CASE k = 0 -> "__DBT_MACRO_0__"
      [] k = 1 -> "__DBT_MACRO_1__"
      [] OTHER -> "__DBT_MACRO_2__"

\* position of the closing }} of {{\s*[\w_]+\(\)\s*}} matched at i, 0 when it
\* does not match there
MacroCallEnd(s, i) ==
    LET n == SkipWs(s, i + 1)
        c == SkipWs(s, n + 3)
    IN IF /\ s[i] = "{{"
          /\ n + 2 <= Len(s)
          /\ IsWord(s[n])
          /\ s[n + 1] = "("
          /\ s[n + 2] = ")"
          /\ c <= Len(s)
          /\ s[c] = "}}"
       THEN c
       ELSE 0

RECURSIVE MacroProtectFrom(_, _, _)
\* generate_dbt_model: re.sub(macro_pattern, macro_replacer, preprocessed) from
\* lexeme i on, with the list macros filled so far
MacroProtectFrom(s, i, macros) ==
    LET starts == {k \in i..Len(s) : MacroCallEnd(s, k) > 0}
        c == MacroCallEnd(s, Min(starts))
        rest == MacroProtectFrom(s, c + 1, Append(macros, SubSeq(s, Min(starts), c)))
    IN IF starts = {} THEN [text |-> SubSeq(s, i, Len(s)), macros |-> macros]
       ELSE [text |-> SubSeq(s, i, Min(starts) - 1)
                      \o <<MacroPlaceholder(Len(macros))>> \o rest.text,
             macros |-> rest.macros]

RECURSIVE MacroRestore(_, _, _)
\* generate_dbt_model: for idx, macro in enumerate(macros): converted_sql.replace(...)
MacroRestore(s, macros, idx) ==
    IF idx >= Len(macros) THEN s
    ELSE MacroRestore(ReplaceFrom(s, 1, <<MacroPlaceholder(idx)>>, macros[idx + 1]),
                      macros, idx + 1)

RECURSIVE JinjaLineComments(_, _)
\* re.sub(r'--([^\n]*)', r'{# \1 #}', converted_sql) from lexeme i on
JinjaLineComments(s, i) ==
    LET starts == {k \in i..Len(s) : s[k] = "--"}
        nl == {j \in (Min(starts) + 1)..Len(s) : IsNewline(s[j])}
        stop == IF nl = {} THEN Len(s) + 1 ELSE Min(nl)
    IN IF starts = {} THEN SubSeq(s, i, Len(s))
       ELSE SubSeq(s, i, Min(starts) - 1)
            \o <<"{#", " ">> \o SubSeq(s, Min(starts) + 1, stop - 1) \o <<" ", "#}">>
            \o JinjaLineComments(s, stop)

\* generate_dbt_model, lines 112-115: SQL comments become Jinja comments
JinjaComments(s) ==
    JinjaLineComments(
        [i \in 1..Len(s) |-> IF s[i] = "/*" THEN "{#" ELSE IF s[i] = "*/" THEN "#}" ELSE s[i]],
        1)

\* convert_postgres_to_snowflake(sql) as one step; parses says whether
\* sqlglot accepts the pre-processed text
convert_postgres_to_snowflake(s, seed, parses) ==
    Only({[failed |-> ~parses,
           text |-> IF parses THEN Transpiled(prepassed) ELSE prepassed] :
          prepassed \in
              {convert_generate_series_to_snowflake(unnested) :
               unnested \in
                   {convert_unnest_array_to_values(crosstabbed) :
                    crosstabbed \in
                        {IF ContainsCrosstab(s) THEN handle_crosstab(s, seed) ELSE s}}}})

\* ^(WITH|SELECT) with re.IGNORECASE
StartsWithWithOrSelect(s) == Len(s) > 0 /\ Upper(s[1]) \in {"WITH", "SELECT"}

\* generate_dbt_model, lines 117-181, from the text the conversion gave
ModelFromConverted(query, preprocessed, restored, converted_sql, failed) ==
    [errors |-> IF failed THEN <<"[Error] Failed to convert SQL">> ELSE <<>>,
     lines |-> (IF restored = preprocessed
                THEN <<"[WARNING] SQL was not modified during conversion">>
                ELSE <<>>)
               \o (IF StartsWithWithOrSelect(converted_sql) THEN <<>>
                   ELSE <<"[WARNING] Query doesn't start with WITH or SELECT">>)
               \o (IF query.metadata_ok THEN <<"[OK] Generated">>
                   ELSE <<"[ERROR] Error processing">>),
     model |-> IF query.metadata_ok THEN converted_sql ELSE None]

\* lines 119-130: the CREATE VIEW head is removed and the table references
\* are replaced
ModelFromRestored(query, preprocessed, restored, failed, block_tables) ==
    Only({ModelFromConverted(query, preprocessed, restored, converted_sql, failed) :
          converted_sql \in
              {Strip(replace_table_references(RemoveCreateView(restored), block_tables))}})

\* lines 108-115: the macro calls are put back and the comments rewritten
ModelFromConversion(query, preprocessed, macros, conversion, block_tables) ==
    Only({ModelFromRestored(query, preprocessed, restored, conversion.failed, block_tables) :
          restored \in {JinjaComments(MacroRestore(conversion.text, macros, 0))}})

\* line 106: the conversion
ModelFromProtected(query, preprocessed, protected, block_tables, seed) ==
    Only({ModelFromConversion(query, preprocessed, protected.macros, conversion, block_tables) :
          conversion \in {convert_postgres_to_snowflake(protected.text, seed, query.parses)}})

\* lines 99-104: the macro calls are replaced by placeholders
ModelFromPreprocessed(query, preprocessed, block_tables, seed) ==
    Only({ModelFromProtected(query, preprocessed, protected, block_tables, seed) :
          protected \in {MacroProtectFrom(preprocessed, 1, <<>>)}})

\* generate_dbt_model(view_name, query, ..., block_tables): the lines it prints,
\* the conversion failures written to stderr, and the SQL of the model file it
\* writes (None when the except clause is reached before the file is written).
\* query.metadata_ok says whether the view's metadata has the string fields the
\* variable section concatenates (lines 152-159).
\* The model is the SQL that follows the variable and config sections; the
\* queries of the runs have no ${...} variables (lines 142-151).
generate_dbt_model(query, block_tables, seed) ==
    Only({ModelFromPreprocessed(query, preprocessed, block_tables, seed) :
          preprocessed \in {preprocess_sql(query.text)}})

----------------------------------------------------------------------------
(* main: one run over a directory of .pry files, or over a single file *)

MaxFiles == 3

\* CREATE VIEW <view> AS SELECT * FROM <table>
ViewQuery(view, table) ==
    <<"CREATE", " ", "VIEW", " ", view, " ", "AS", " ", "SELECT", " ", "*", " ",
      "FROM", " ", table>>

\* CREATE TEMP TABLE <table> AS (SELECT 1)
BlockContent(table) ==
    <<"CREATE", " ", "TEMP", " ", "TABLE", " ", table, " ", "AS", " ", "(",
      "SELECT", " ", "1", ")">>

\* one entry of parsed_queries with what the run meets on it: whether the
\* search of reportviews for its view (line 65) only meets mappings, whether
\* the view is marked external there, whether sqlglot accepts the query, and
\* whether the view's metadata has string fields
Query(text, lookup_ok, external, parses, metadata_ok) ==
    [text |-> text, lookup_ok |-> lookup_ok, external |-> external,
     parses |-> parses, metadata_ok |-> metadata_ok]

\* one .pry file: in_blocks says whether a directory named blocks is among its
\* parents, readable whether read_text succeeds, has_queries whether the
\* content has a 'queries:' section
PryFile(in_blocks, readable, has_queries, content, parses, queries) ==
    [in_blocks |-> in_blocks, readable |-> readable, has_queries |-> has_queries,
     content |-> content, parses |-> parses, queries |-> queries]

\* the tables the block files of the runs create
BlockTableNames == {"tmp_a", "tmp_b"}

BlockFileKinds ==
    {PryFile(TRUE, TRUE, FALSE, BlockContent("tmp_a"), TRUE, <<>>),
     PryFile(TRUE, TRUE, FALSE, BlockContent("tmp_b"), FALSE, <<>>),
     PryFile(TRUE, FALSE, FALSE, <<>>, TRUE, <<>>)}

RegularFileKinds ==
    {PryFile(FALSE, TRUE, TRUE, <<>>, TRUE,
             <<Query(ViewQuery("v1", "patient"), TRUE, FALSE, FALSE, TRUE),
               Query(ViewQuery("v2", "tmp_a"), TRUE, FALSE, TRUE, TRUE)>>),
     PryFile(FALSE, TRUE, TRUE, <<>>, TRUE,
             <<Query(ViewQuery("v3", "orders"), TRUE, FALSE, TRUE, FALSE),
               Query(<<"SELECT", " ", "1">>, TRUE, FALSE, TRUE, TRUE),
               Query(ViewQuery("v4", "orders"), TRUE, TRUE, TRUE, TRUE),
               Query(<<"{%", " ", "include", " ", "'", "blk", ".", "pry", "'", " ",
                       "%}", "\n">> \o ViewQuery("v5", "tmp_b"),
                     TRUE, FALSE, TRUE, TRUE)>>),
     PryFile(FALSE, TRUE, TRUE, <<>>, TRUE,
             <<Query(ViewQuery("v6", "orders"), TRUE, FALSE, TRUE, TRUE),
               Query(ViewQuery("v7", "orders"), FALSE, FALSE, TRUE, TRUE),
               Query(ViewQuery("v8", "orders"), TRUE, FALSE, TRUE, TRUE)>>),
     PryFile(FALSE, TRUE, FALSE, <<>>, TRUE, <<>>),
     PryFile(FALSE, FALSE, FALSE, <<>>, TRUE, <<>>)}

RunInputs ==
    {[mode |-> "dir", pry_files |-> files] :
        files \in SeqsUpTo(BlockFileKinds \cup RegularFileKinds, MaxFiles)}
    \cup {[mode |-> "file", pry_files |-> <<file>>] :
             file \in BlockFileKinds \cup RegularFileKinds}

\* the function f as the table of its values
Tabulated(f) == f @@ <<>>

\* the entries of parsed_queries in the files of the runs
BatchQueries == UNION {Range(f.queries) : f \in RegularFileKinds}

\* convert_pry_to_dbt, lines 22-30, on each block file of the runs:
\* converted_sql and created_tables
BlockConversion ==
    Tabulated([f \in BlockFileKinds |->
        Only({[failed |-> conversion.failed, text |-> conversion.text,
               created_tables |-> CreatedTablesFrom(conversion.text, 1)] :
              conversion \in {convert_postgres_to_snowflake(preprocess_sql(f.content),
                                                           0, f.parses)}})])

\* convert_pry_to_dbt, lines 60-77, on each query of the runs: the query after
\* the includes are replaced, its view_name, and what generate_dbt_model does
\* with each set of block tables the first pass can give
QueryConversion ==
    Tabulated([entry \in BatchQueries |->
        Only({[view_name |-> extract_view_name_from_query(query.text),
               result |-> Tabulated([block_tables \in SUBSET BlockTableNames |->
                             generate_dbt_model(query, block_tables, 0)])] :
              query \in {[entry EXCEPT !.text = preprocess_sql(entry.text)]}})])

RECURSIVE FilesWhere(_, _)
\* [f for f in pry_files if ...]: the files that are, or are not, under blocks
FilesWhere(files, in_blocks) ==
    IF files = <<>> THEN <<>>
    ELSE (IF Head(files).in_blocks = in_blocks THEN <<Head(files)>> ELSE <<>>)
         \o FilesWhere(Tail(files), in_blocks)

\* main, line 68
block_files == FilesWhere(desc.pry_files, TRUE)

\* main, line 69
regular_files == FilesWhere(desc.pry_files, FALSE)

\* one printed line, with the pass, file and query it is about
Line(text, pass, file, query) ==
    [line |-> text, pass |-> pass, file |-> file, query |-> query]

RECURSIVE Lines(_, _, _, _)
Lines(texts, pass, file, query) ==
    IF texts = <<>> THEN <<>>
    ELSE <<Line(texts[1], pass, file, query)>> \o Lines(Tail(texts), pass, file, query)

InitBatch ==
    /\ desc \in RunInputs
    /\ pc = "start"
    /\ hashseed = 0
    /\ sql_in = None
    /\ sql = None
    /\ converted = None
    /\ generated = None
    /\ RestIdle

batchidle == <<desc, sql_in, sql, converted, generated, hashseed>>

\* main, lines 89-91: the call convert_pry_to_dbt(input_path, output_dir) lacks
\* the parameter config and raises TypeError, which nothing catches
StartSingleFile ==
    /\ pc = "start"
    /\ desc.mode = "file"
    /\ stdout' = Append(stdout, Line("Processing single file", "", 0, 0))
    /\ pc' = "crashed"
    /\ UNCHANGED <<batchidle, stderr, written, main_block_tables, file_idx, query_idx>>

\* main, lines 59-65: no file found
StartEmptyDirectory ==
    /\ pc = "start"
    /\ desc.mode = "dir"
    /\ desc.pry_files = <<>>
    /\ stdout' = Append(stdout, Line("No PRY files found.", "", 0, 0))
    /\ pc' = "exited"
    /\ UNCHANGED <<batchidle, stderr, written, main_block_tables, file_idx, query_idx>>

\* main, lines 59-73
StartDirectoryRun ==
    /\ pc = "start"
    /\ desc.mode = "dir"
    /\ desc.pry_files # <<>>
    /\ stdout' = Append(stdout, Line("=== Processing block files ===", "", 0, 0))
    /\ main_block_tables' = {}
    /\ file_idx' = 1
    /\ pc' = "blocks"
    /\ UNCHANGED <<batchidle, stderr, written, query_idx>>

\* main, lines 74-80, one iteration: convert_pry_to_dbt on a block file
\* (dbt_wrapper.py lines 16-45); the except clause prints the exception of the
\* file and the loop goes on
ProcessBlockFile ==
    /\ pc = "blocks"
    /\ file_idx <= Len(block_files)
    /\ \E f \in {block_files[file_idx]} :
        \E conversion \in {BlockConversion[f]} :
          IF ~f.readable
          THEN /\ stdout' = Append(stdout,
                                   Line("[ERROR] Failed to process", "blocks", file_idx, 0))
               /\ UNCHANGED <<pc, stderr, written, main_block_tables>>
          ELSE /\ stderr' = stderr \o (IF conversion.failed
                                       THEN <<"[Error] Failed to convert SQL">> ELSE <<>>)
               /\ written' = written \cup {[path |-> <<"macros", file_idx, "">>,
                                            content |-> conversion.text]}
               /\ stdout' = Append(stdout,
                                   Line("[OK] Block macro generated", "blocks", file_idx, 0))
               /\ main_block_tables' = main_block_tables \cup conversion.created_tables
               /\ UNCHANGED pc
    /\ file_idx' = file_idx + 1
    /\ UNCHANGED <<batchidle, query_idx>>

\* the first pass left before its last file
EndBlockPassEarly ==
    /\ pc = "blocks"
    /\ file_idx >= Len(block_files)
    /\ stdout' = Append(stdout, Line("=== Processing regular files ===", "", 0, 0))
    /\ file_idx' = 1
    /\ query_idx' = 0
    /\ pc' = "regular"
    /\ UNCHANGED <<batchidle, stderr, written, main_block_tables>>

\* main, line 82: the first pass is over
EndBlockPass ==
    /\ pc = "blocks"
    /\ file_idx > Len(block_files)
    /\ stdout' = Append(stdout, Line("=== Processing regular files ===", "", 0, 0))
    /\ file_idx' = 1
    /\ query_idx' = 0
    /\ pc' = "regular"
    /\ UNCHANGED <<batchidle, stderr, written, main_block_tables>>

\* main, lines 84-88, and convert_pry_to_dbt, lines 16 and 48-57: the file is
\* read and parsed
OpenRegularFile ==
    /\ pc = "regular"
    /\ file_idx <= Len(regular_files)
    /\ query_idx = 0
    /\ \E f \in {regular_files[file_idx]} :
          IF ~f.readable \/ ~f.has_queries
          THEN /\ stdout' = Append(stdout,
                                   Line("[ERROR] Failed to process", "regular", file_idx, 0))
               /\ file_idx' = file_idx + 1
               /\ UNCHANGED query_idx
          ELSE /\ query_idx' = 1
               /\ UNCHANGED <<stdout, file_idx>>
    /\ UNCHANGED <<batchidle, pc, stderr, written, main_block_tables>>

\* convert_pry_to_dbt, lines 58-77: one iteration of the loop over the queries.
\* Lines 60-68 are outside any try: an exception of the search of reportviews
\* leaves convert_pry_to_dbt and reaches the except clause of main, lines 87-88.
ProcessQuery ==
    /\ pc = "regular"
    /\ file_idx <= Len(regular_files)
    /\ query_idx >= 1
    /\ query_idx <= Len(regular_files[file_idx].queries)
    /\ \E query \in {regular_files[file_idx].queries[query_idx]} :
        \E conversion \in {QueryConversion[query]} :
        \E view_name \in {conversion.view_name} :
        \E result \in {conversion.result[main_block_tables]} :
          IF view_name = NoViewName
          THEN /\ stdout' = Append(stdout, Line("Warning: Could not extract view name",
                                                "regular", file_idx, query_idx))
               /\ query_idx' = query_idx + 1
               /\ UNCHANGED <<stderr, written, file_idx>>
          ELSE IF ~query.lookup_ok
          THEN /\ stdout' = Append(stdout, Line("[ERROR] Failed to process",
                                                "regular", file_idx, query_idx))
               /\ file_idx' = file_idx + 1
               /\ query_idx' = 0
               /\ UNCHANGED <<stderr, written>>
          ELSE IF query.external
          THEN /\ stdout' = Append(stdout, Line("Skipping external view",
                                                "regular", file_idx, query_idx))
               /\ query_idx' = query_idx + 1
               /\ UNCHANGED <<stderr, written, file_idx>>
          ELSE /\ stdout' = stdout \o Lines(result.lines, "regular", file_idx, query_idx)
               /\ stderr' = stderr \o result.errors
               /\ written' = IF result.model = None THEN written
                             ELSE written \cup {[path |-> <<"models", file_idx, view_name>>,
                                                 content |-> result.model]}
               /\ query_idx' = query_idx + 1
               /\ UNCHANGED file_idx
    /\ UNCHANGED <<batchidle, pc, main_block_tables>>

\* convert_pry_to_dbt, line 78: the loop is over and the call returns
CloseRegularFile ==
    /\ pc = "regular"
    /\ file_idx <= Len(regular_files)
    /\ query_idx > Len(regular_files[file_idx].queries)
    /\ file_idx' = file_idx + 1
    /\ query_idx' = 0
    /\ UNCHANGED <<batchidle, pc, stdout, stderr, written, main_block_tables>>

\* main, line 93
FinishRun ==
    /\ pc = "regular"
    /\ file_idx > Len(regular_files)
    /\ stdout' = Append(stdout, Line("--- Run finished", "", 0, 0))
    /\ pc' = "finished"
    /\ UNCHANGED <<batchidle, stderr, written, main_block_tables, file_idx, query_idx>>

NextBatch ==
    \/ StartSingleFile
    \/ StartEmptyDirectory
    \/ StartDirectoryRun
    \/ ProcessBlockFile
    \/ EndBlockPass
    \/ OpenRegularFile
    \/ ProcessQuery
    \/ CloseRegularFile
    \/ FinishRun

SpecBatch == InitBatch /\ [][NextBatch]_vars

\* the run is one sequential process: a step that can be taken is taken
FairSpecBatch == SpecBatch /\ WF_vars(NextBatch)

\* a failure has been reported: a conversion failure on stderr, an exception
\* caught by generate_dbt_model, or an exception caught by main
FailureReported ==
    \/ stderr # <<>>
    \/ \E k \in DOMAIN stdout :
          stdout[k].line \in {"[ERROR] Error processing", "[ERROR] Failed to process"}

\* the run printed a line about query q of file f of the pass (q = 0: the file)
Processed(pass, f, q) ==
    \E k \in DOMAIN stdout :
        stdout[k].pass = pass /\ stdout[k].file = f /\ stdout[k].query = q

\* every block file, every regular file and every query of a regular file that
\* could be read and split into queries has been processed
AllProcessed ==
    /\ \A f \in DOMAIN block_files : Processed("blocks", f, 0)
    /\ \A f \in DOMAIN regular_files :
          IF ~regular_files[f].readable \/ ~regular_files[f].has_queries
          THEN Processed("regular", f, 0)
          ELSE \A q \in DOMAIN regular_files[f].queries : Processed("regular", f, q)

\* C10: in a directory run, once a failure of a query or of a file has been
\* reported, the run still processes every later query and file and reaches
\* its end: eventually the run is finished with every file and query processed.
C10_FailureIsolated == FailureReported ~> (pc = "finished" /\ AllProcessed)

----------------------------------------------------------------------------
(* The value convert_postgres_to_snowflake returns *)

\* C11: the caller can tell a failed translation from the returned value: the
\* value a failed call returns is never the value the successful conversion of
\* the same pre-processed text returns.
C11_FailureDistinguishable ==
    (pc = "returned" /\ ConversionFailed) => converted # Transpiled(sql)

----------------------------------------------------------------------------
(* FixedSnowflake.Generator: the overrides eq_sql and cast_sql on expression
   nodes.  A node has the class the parser gave it, the text self.sql(node)
   gives, and for a quantifier or a literal the text of what it holds. *)

Node(class, text, this) == [class |-> class, sql |-> text, this |-> this, is_string |-> FALSE]

Column(name) == Node("Column", name, name)

\* a string literal: name is its content, sql the quoted form
StringLiteral(name) == [Node("Literal", <<"'">> \o name \o <<"'">>, name) EXCEPT !.is_string = TRUE]

\* a number literal: exp.Literal with is_string false
NumberLiteral(name) == Node("Literal", name, name)

\* array_sql, lines 43-46: ARRAY[...] becomes ARRAY_CONSTRUCT(...)
array_sql(expressions) ==
    <<"ARRAY_CONSTRUCT", "(">> \o Join(expressions, <<",", " ">>) \o <<")">>

Array(expressions) == Node("Array", array_sql(expressions), <<>>)

\* ANY(<this>), ALL(<this>) and a parenthesised node
Quantified(class, this) ==
    Node(class, <<IF class = "Any" THEN "ANY" ELSE "ALL", "(">> \o this.sql \o <<")">>, this.sql)

Paren(this) == Node("Paren", <<"(">> \o this.sql \o <<")">>, this.sql)

\* super().eq_sql(expression): the library's rendering of a comparison
DefaultEqSql(expression) ==
    expression.left.sql \o <<" ", "=", " ">> \o expression.right.sql

\* eq_sql with the test on the left operand
eq_sql_left(expression) ==
    IF expression.left.class = "Any"
    THEN <<"ARRAY_CONTAINS", "(", "TO_VARIANT", "(">> \o expression.left.sql
         \o <<")", ",", " ">> \o expression.right.this \o <<")">>
    ELSE DefaultEqSql(expression)

\* FixedSnowflake.Generator.eq_sql
eq_sql(expression) ==
    IF expression.right.class = "Any"
    THEN <<"ARRAY_CONTAINS", "(", "TO_VARIANT", "(">> \o expression.left.sql
         \o <<")", ",", " ">> \o expression.right.this \o <<")">>
    ELSE DefaultEqSql(expression)

\* str.strip("'\"") on the content of a literal
StripQuotes(s) ==
    LET keep == {i \in 1..Len(s) : s[i] \notin {"'", "\""}}
    IN IF keep = {} THEN <<>> ELSE SubSeq(s, Min(keep), Max(keep))

RECURSIVE SplitFrom(_, _)
\* str.split() from position i on: the whitespace-separated tokens
SplitFrom(s, i) ==
    Only({IF start > Len(s) THEN <<>>
          ELSE <<SubSeq(s, start, NonWsEnd(s, start) - 1)>>
               \o SplitFrom(s, NonWsEnd(s, start)) :
          start \in {SkipWs(s, i)}})

Split(s) == SplitFrom(s, 1)

\* a cast expression: the operand and the name of the target type
Cast(this, to) == [class |-> "Cast", this |-> this, to |-> to]

\* an equality: the two operands
EQ(left, right) == [class |-> "EQ", left |-> left, right |-> right]

\* super().cast_sql(expression): the library's rendering of a cast
DefaultCastSql(expression) ==
    <<"CAST", "(">> \o expression.this.sql \o <<" ", "AS", " ", expression.to, ")">>

\* the interval branch of cast_sql, lines 20-30, on the stripped content
IntervalCastSql(expression, value, parts) ==
    IF Len(parts) >= 2 THEN <<"INTERVAL", " ", "'">> \o value \o <<"'">>
    ELSE IF Len(parts) = 1
    THEN <<"INTERVAL", " ", "'">> \o parts[1] \o <<" ", "days", "'">>
    ELSE DefaultCastSql(expression)

\* cast_sql without the strip of the quote characters
cast_sql_unstripped(expression) ==
    IF /\ expression.to = "INTERVAL"
       /\ expression.this.class = "Literal"
       /\ expression.this.is_string
    THEN Only({IntervalCastSql(expression, value, Split(value)) :
               value \in {expression.this.this}})
    ELSE DefaultCastSql(expression)

\* FixedSnowflake.Generator.cast_sql
cast_sql(expression) ==
    IF /\ expression.to = "INTERVAL"
       /\ expression.this.class = "Literal"
       /\ expression.this.is_string
    THEN Only({IntervalCastSql(expression, value, Split(value)) :
               value \in {StripQuotes(expression.this.this)}})
    ELSE DefaultCastSql(expression)

(* The expressions the overrides are applied to *)

MaxTokens == 2

IntervalTokens == {"5", "days", "hours"}

OperandValues ==
    {[form |-> "column", items |-> <<"x">>],
     [form |-> "column", items |-> <<"ids">>],
     [form |-> "literal", items |-> <<"a">>],
     [form |-> "array", items |-> <<"1", "2">>]}

EqInputs ==
    [kind : {"eq"},
     left : [quantifier : {"none", "any"}, value : OperandValues],
     right : [quantifier : {"none", "any", "all", "paren_any"}, value : OperandValues]]

CastInputs ==
    [kind : {"cast"},
     operand : {"string", "number", "column"},
     tokens : SeqsUpTo(IntervalTokens, MaxTokens),
     decoration : {"plain", "padded", "double", "single"},
     to : {"INTERVAL", "INT", "TEXT"}]

OverrideInputs ==
    EqInputs \cup {d \in CastInputs : d.operand = "string" \/ (Len(d.tokens) = 1 /\ d.decoration = "plain")}

ValueNode(v) ==
    CASE v.form = "column" -> Column(v.items)
      [] v.form = "literal" -> StringLiteral(v.items)
      [] v.form = "array" -> Array([i \in 1..Len(v.items) |-> <<v.items[i]>>])

OperandNode(o) ==
    CASE o.quantifier = "none" -> ValueNode(o.value)
      [] o.quantifier = "any" -> Quantified("Any", ValueNode(o.value))
      [] o.quantifier = "all" -> Quantified("All", ValueNode(o.value))
      [] o.quantifier = "paren_any" -> Paren(Quantified("Any", ValueNode(o.value)))

TokenSeqs(d) == [i \in 1..Len(d.tokens) |-> <<d.tokens[i]>>]

\* the content of the string literal of a cast input
LiteralContent(d) ==
    CASE d.decoration = "plain" -> Join(TokenSeqs(d), <<" ">>)
      [] d.decoration = "padded" -> <<" ">> \o Join(TokenSeqs(d), <<" ">>) \o <<" ">>
      [] d.decoration = "double" -> <<"\"">> \o Join(TokenSeqs(d), <<" ">>) \o <<"\"">>
      [] d.decoration = "single" -> <<"'">> \o Join(TokenSeqs(d), <<" ">>) \o <<"'">>

CastOperand(d) ==
    CASE d.operand = "string" -> StringLiteral(LiteralContent(d))
      [] d.operand = "number" -> NumberLiteral(d.tokens)
      [] d.operand = "column" -> Column(d.tokens)

ExpressionOf(d) ==
    IF d.kind = "eq" THEN EQ(OperandNode(d.left), OperandNode(d.right))
    ELSE Cast(CastOperand(d), d.to)

InitOverrides ==
    /\ desc \in OverrideInputs
    /\ sql_in = <<>>
    /\ pc = "start"
    /\ sql = <<>>
    /\ converted = None
    /\ generated = None
    /\ hashseed = 0
    /\ RestIdle

\* the generator serialises an equality
EqOverride ==
    /\ pc = "start"
    /\ desc.kind = "eq"
    /\ generated' = eq_sql(ExpressionOf(desc))
    /\ pc' = "done"
    /\ UNCHANGED <<desc, sql_in, sql, converted, hashseed, idle>>

\* the generator serialises a cast
CastOverride ==
    /\ pc = "start"
    /\ desc.kind = "cast"
    /\ generated' = cast_sql(ExpressionOf(desc))
    /\ pc' = "done"
    /\ UNCHANGED <<desc, sql_in, sql, converted, hashseed, idle>>

NextOverrides == EqOverride \/ CastOverride

SpecOverrides == InitOverrides /\ [][NextOverrides]_vars

(* Expected texts, written from the input descriptions *)

ValueText(v) ==
    IF v.form = "column" THEN v.items
    ELSE IF v.form = "literal" THEN <<"'">> \o v.items \o <<"'">>
    ELSE <<"ARRAY_CONSTRUCT", "(", v.items[1], ",", " ", v.items[2], ")">>

OperandText(o) ==
    IF o.quantifier = "none" THEN ValueText(o.value)
    ELSE IF o.quantifier = "any" THEN <<"ANY", "(">> \o ValueText(o.value) \o <<")">>
    ELSE IF o.quantifier = "all" THEN <<"ALL", "(">> \o ValueText(o.value) \o <<")">>
    ELSE <<"(", "ANY", "(">> \o ValueText(o.value) \o <<")", ")">>

ExpectedEq(d) ==
    IF d.right.quantifier = "any"
    THEN <<"ARRAY_CONTAINS", "(", "TO_VARIANT", "(">> \o OperandText(d.left)
         \o <<")", ",", " ">> \o ValueText(d.right.value) \o <<")">>
    ELSE OperandText(d.left) \o <<" ", "=", " ">> \o OperandText(d.right)

\* C12: an equality whose right-hand operand is an ANY quantifier is emitted as
\* ARRAY_CONTAINS(TO_VARIANT(<value>), <array>); every other equality is emitted
\* by the default serialization, <left> = <right>.
C12_EqAny ==
    (pc = "done" /\ desc.kind = "eq") => generated = ExpectedEq(desc)

C12_Witness ==
    /\ pc = "done"
    /\ desc.kind = "eq"
    /\ desc.right.quantifier = "any"
    /\ desc.right.value.form = "array"
    /\ desc.left.quantifier = "none"
    /\ generated = ExpectedEq(desc)

IsIntervalCast(d) == d.kind = "cast" /\ d.operand = "string" /\ d.to = "INTERVAL"

\* the default serialization of a cast input
DefaultCastText(d) ==
    <<"CAST", "(">>
    \o (IF d.operand = "string" THEN <<"'">> \o LiteralContent(d) \o <<"'">> ELSE d.tokens)
    \o <<" ", "AS", " ", d.to, ")">>

QuoteOf(d) == IF d.decoration = "double" THEN "\"" ELSE "'"

\* the whitespace-separated tokens of the literal as written
LiteralTokens(d) ==
    IF d.decoration \in {"plain", "padded"} THEN TokenSeqs(d)
    ELSE IF Len(d.tokens) = 0 THEN <<<<QuoteOf(d), QuoteOf(d)>>>>
    ELSE IF Len(d.tokens) = 1 THEN <<<<QuoteOf(d), d.tokens[1], QuoteOf(d)>>>>
    ELSE <<<<QuoteOf(d), d.tokens[1]>>, <<d.tokens[2], QuoteOf(d)>>>>

\* the literal without the quote characters at its two ends
UnquotedContent(d) ==
    IF d.decoration = "padded" THEN LiteralContent(d) ELSE Join(TokenSeqs(d), <<" ">>)

IntervalText(d, value, parts) ==
    IF Len(parts) >= 2 THEN <<"INTERVAL", " ", "'">> \o value \o <<"'">>
    ELSE IF Len(parts) = 1 THEN <<"INTERVAL", " ", "'">> \o parts[1] \o <<" ", "days", "'">>
    ELSE DefaultCastText(d)

\* C13 as stated: a cast of a string literal to INTERVAL is emitted as
\* INTERVAL '<literal>' with the literal verbatim when the literal has two or
\* more whitespace-separated tokens and as INTERVAL '<token> days' when it has
\* exactly one; every other cast is emitted by the default serialization.
C13_IntervalCastVerbatim ==
    (pc = "done" /\ desc.kind = "cast")
        => generated = IF IsIntervalCast(desc)
                       THEN IntervalText(desc, LiteralContent(desc), LiteralTokens(desc))
                       ELSE DefaultCastText(desc)

\* C13 amended: the literal is first stripped of the quote characters at its
\* two ends; the stripped text is emitted as INTERVAL '<text>' when it has two or
\* more whitespace-separated tokens, its token as INTERVAL '<token> days' when it
\* has exactly one, so CAST('<n> days' AS INTERVAL) yields INTERVAL '<n> days';
\* every other cast (non-interval type, non-string operand, no token left) is
\* emitted by the default serialization.
C13_IntervalCast ==
    (pc = "done" /\ desc.kind = "cast")
        => generated = IF IsIntervalCast(desc)
                       THEN IntervalText(desc, UnquotedContent(desc), TokenSeqs(desc))
                       ELSE DefaultCastText(desc)

C13_Witness ==
    /\ pc = "done"
    /\ IsIntervalCast(desc)
    /\ desc.tokens = <<"5", "days">>
    /\ desc.decoration = "plain"
    /\ generated = <<"INTERVAL", " ", "'", "5", " ", "days", "'">>

----------------------------------------------------------------------------
(* parse_crosstab_sql on CTE statements with calls, casts, aliases and joins *)

CteInputs ==
    [with_clause : BOOLEAN,
     id : {"plain", "qualified", "prefixed"},
     cat : {"plain", "call", "cast"},
     val : {"plain", "call", "aliased"},
     from : {"one", "twice", "two", "schema"},
     kw : {"AS", "as"}]

\* the three entries of the SELECT list of the CTE statement
CteEntries(d) ==
    <<CASE d.id = "plain" -> <<"id">>
        [] d.id = "qualified" -> <<"tbl", ".", "id", " ", d.kw, " ", "id">>
        [] d.id = "prefixed" -> <<"tbl", "_id", " ", d.kw, " ", "id">>,
      CASE d.cat = "plain" -> <<"categorie">>
        [] d.cat = "call" -> <<"upper", "(", "categorie", ")", " ", d.kw, " ", "categorie">>
        [] d.cat = "cast" -> <<"CAST", "(", "cat", " ", "AS", " ", "text", ")", " ", d.kw, " ", "categorie">>,
      CASE d.val = "plain" -> <<"val">>
        [] d.val = "call" -> <<"count", "(", "val", ")">>
        [] d.val = "aliased" -> <<"coalesce", "(", "val", ",", " ", "0", ")", " ", d.kw, " ", "val">>>>

\* the FROM clause of the CTE statement
CteFrom(d) ==
    CASE d.from = "one" -> <<"FROM", " ", "tbl">>
      [] d.from = "twice" -> <<"FROM", " ", "tbl", " ", "a", " ", "JOIN", " ", "tbl", " ", "b", " ", "ON", " ", "1", "=", "1">>
      [] d.from = "two" -> <<"FROM", " ", "tbl", " ", "JOIN", " ", "other", " ", "ON", " ", "1", "=", "1">>
      [] d.from = "schema" -> <<"FROM", " ", "s", ".", "tbl">>

\* the WITH list in front of the SELECT, if any
CteWithList(d) ==
    IF d.with_clause
    THEN <<"WITH", " ", "base", " ", "AS", " ", "(", "SELECT", " ", "*", " ", "FROM", " ", "src", ")">>
    ELSE <<>>

\* the top-level SELECT of the CTE statement
CteSelect(d) ==
    <<"SELECT", " ">> \o Join(CteEntries(d), <<",", " ">>) \o <<" ">> \o CteFrom(d)
    \o <<" ", "ORDER", " ", "BY", " ", "1">>

RenderCteInput(d) ==
    <<"SELECT", " ", "*", " ", "FROM", " ", "crosstab", "(", "$$">>
    \o CteWithList(d) \o (IF d.with_clause THEN <<" ">> ELSE <<>>) \o CteSelect(d)
    \o <<"$$", ",", " ", "$$", "SELECT", " ", "DISTINCT", " ", "categorie", " ", "FROM",
         " ", "cats", " ", "ORDER", " ", "BY", " ", "1", "$$", ")", " ", "AS", " ", "ct", "(",
         "id", " ", "text", ",", " ", "cat_a", " ", "text", ",", " ", "cat_b", " ", "text", ")">>

InitDecompose ==
    /\ desc \in CteInputs
    /\ hashseed \in 0..1
    /\ sql_in = RenderCteInput(desc)
    /\ pc = "start"
    /\ sql = <<>>
    /\ converted = None
    /\ generated = None
    /\ RestIdle

\* lines 36-42: cte_statement after the WITH block is split off
SelectPart(cte_statement) ==
    Only({IF m_with_match.found
          THEN Strip(SubSeq(cte_statement, m_with_match.end, Len(cte_statement)))
          ELSE cte_statement :
          m_with_match \in {SearchWith(cte_statement)}})

\* lines 71-104: the local input_cols, None when the function returns before
input_cols(cte_statement) ==
    Only({IF m_cte_select_statement.found
          THEN InputCols(SplitSelectCols(Strip(m_cte_select_statement.group1), 1, 0, <<>>))
          ELSE None :
          m_cte_select_statement \in {SearchSelectFrom(cte_statement)}})

\* handle_crosstab decomposes the statement; generated holds the local input_cols
Decompose ==
    /\ pc = "start"
    /\ converted' = handle_crosstab(sql_in, hashseed)
    /\ generated' = input_cols(SelectPart(DollarBlocks(StripLineComments(sql_in, 1), 1)[1]))
    /\ pc' = "done"
    /\ UNCHANGED <<desc, sql_in, sql, hashseed, idle>>

NextDecompose == Decompose

SpecDecompose == InitDecompose /\ [][NextDecompose]_vars

(* What the claims expect of the decomposition, written from the input *)

StartsWith(s, prefix) ==
    Len(prefix) <= Len(s) /\ SubSeq(s, 1, Len(prefix)) = prefix

EndsWith(s, suffix) ==
    Len(suffix) <= Len(s) /\ SubSeq(s, Len(s) - Len(suffix) + 1, Len(s)) = suffix

\* a crosstab query was emitted
Emitted == pc = "done" /\ converted # <<>> /\ converted # CrosstabPlaceholder

\* SELECT <dims>, up to the pivot call
OuterSelectHead == <<"SELECT", " ", "id", "\n", ",", " ", "{{", " ", "dbt_utils", ".", "pivot", "(">>

\* FROM cte1 GROUP BY <dims>
OuterSelectTail == <<"\n", "FROM", " ", "cte1", "\n", "GROUP", " ", "BY", " ", "id">>

\* C14: a CTE statement with a top-level WITH clause is split into the WITH list
\* and the remaining top-level SELECT, and the query emitted is the WITH list,
\* then ,cte1 AS (<remaining SELECT>), then SELECT <dims>, <pivot call> FROM cte1
\* GROUP BY <dims>, also when the SELECT list holds function calls.
C14_WithHoisted ==
    (pc = "done" /\ desc.with_clause)
        => /\ StartsWith(converted,
                         CteWithList(desc) \o <<"\n ", ",", "cte1", " ", "AS", " ", "(", "\n">>
                         \o CteSelect(desc) \o <<"\n", ")", "\n">> \o OuterSelectHead)
           /\ EndsWith(converted, OuterSelectTail)

\* the column name the claim gives each entry of the SELECT list: the alias
\* where there is one, the first whitespace-delimited token otherwise
ExpectedInputCols(d) ==
    <<<<"id">>,
      <<"categorie">>,
      IF d.val = "call" THEN <<"count", "(", "val", ")">> ELSE <<"val">>>>

\* C15: the input column name of each SELECT-list entry is the text after the
\* last " as " of the entry (in any letter case) when it has one, its first
\* whitespace-delimited token when it has none.
C15_InputColumnNames ==
    (pc = "done" /\ generated # None) => generated = ExpectedInputCols(desc)

BareTables == {"tbl", "other", "src"}

\* C16: in every emitted crosstab query, with or without a hoisted WITH clause,
\* no bare table name is left after FROM or JOIN in the CTE statement: each
\* appears as {{ ref('<name>') }}.
C16_TablesReferenced ==
    Emitted
        => /\ \A k \in 1..(Len(converted) - 2) :
                  converted[k] \in {"FROM", "JOIN"} => converted[k + 2] \notin BareTables
           /\ desc.from # "schema"
                  => \E k \in 1..(Len(converted) - 2) :
                         converted[k] = "FROM" /\ converted[k + 2] = "{{"

Ref(name) == <<"{{", " ", "ref", "(", "'", name, "'", ")", " ", "}}">>

\* the FROM clause with every table name in it rewritten once
ExpectedFrom(d) ==
    CASE d.from = "one" -> <<"FROM", " ">> \o Ref("tbl")
      [] d.from = "twice" -> <<"FROM", " ">> \o Ref("tbl") \o <<" ", "a", " ", "JOIN", " ">> \o Ref("tbl") \o <<" ", "b", " ", "ON", " ", "1", "=", "1">>
      [] d.from = "two" -> <<"FROM", " ">> \o Ref("tbl") \o <<" ", "JOIN", " ">> \o Ref("other") \o <<" ", "ON", " ", "1", "=", "1">>
      [] d.from = "schema" -> <<"FROM", " ", "s", ".", "tbl">>

\* C17: in the plain variant the rewrite changes the table names that directly
\* follow FROM or JOIN, each once, and nothing else of the CTE statement: not a
\* second time when a table is named twice, and not where the name of a table
\* is part of another identifier.
C17_OnlyTableNamesRewritten ==
    (Emitted /\ ~desc.with_clause)
        => StartsWith(converted,
                      <<"WITH", " ", "cte1", " ", "AS", " ", "(", "\n", "SELECT", " ">>
                      \o Join(CteEntries(desc), <<",", " ">>) \o <<" ">> \o ExpectedFrom(desc)
                      \o <<" ", "ORDER", " ", "BY", " ", "1", ")", "\n">> \o OuterSelectHead)

----------------------------------------------------------------------------
(* replace_table_references applied to its own result *)

\* the function is applied to the text the first call returned
ReplaceAgain ==
    /\ pc = "done"
    /\ generated' = replace_table_references(converted, desc.block_tables)
    /\ pc' = "again"
    /\ UNCHANGED <<desc, sql_in, sql, converted, hashseed, idle>>

NextRefsTwice == ReplaceRefs \/ ReplaceAgain

SpecRefsTwice == InitRefs /\ [][NextRefsTwice]_vars

\* C18: replace_table_references is idempotent: applied to its own result, with
\* the same block tables, it returns that result unchanged.
C18_ReplaceIdempotent ==
    pc = "again" => generated = converted

----------------------------------------------------------------------------
(* The two passes of a directory run *)

\* the files of the run that lie under blocks and can be read
ReadableBlockFiles == {f \in Range(desc.pry_files) : f.in_blocks /\ f.readable}

\* the table names those files return
ExpectedBlockTables ==
    {t \in BlockTableNames : \E f \in ReadableBlockFiles : f.content = BlockContent(t)}

\* the positions in stdout of the lines of a pass
LinesOfPass(pass) == {i \in 1..Len(stdout) : stdout[i].pass = pass}

\* the text refers to the table through ref()
RefersTo(text, t) ==
    \E k \in 1..(Len(text) - 3) : SubSeq(text, k, k + 3) = <<"ref", "(", "'", t>>

\* the models the second pass has written
WrittenModels == {w \in written : w.path[1] = "models"}

\* C19: in a directory run every block file is processed before any regular file:
\* no line of the first pass follows a line of the second, and when the second
\* pass runs every block file has had its turn, the unreadable ones included;
\* the block-table set then holds the names every readable block file returned,
\* none for a failing file, and every model is written with these tables left
\* as they are.
C19_BlocksBeforeRegular ==
    /\ \A i \in LinesOfPass("regular") : \A j \in LinesOfPass("blocks") : j < i
    /\ pc \in {"regular", "finished"}
          => /\ {stdout[i].file : i \in LinesOfPass("blocks")} = 1..Len(block_files)
             /\ main_block_tables = ExpectedBlockTables
             /\ \A w \in WrittenModels : \A t \in ExpectedBlockTables : ~RefersTo(w.content, t)

C19_Witness ==
    /\ pc = "finished"
    /\ \E j \in LinesOfPass("blocks") : stdout[j].line = "[ERROR] Failed to process"
    /\ main_block_tables = {"tmp_a"}
    /\ \E w \in WrittenModels :
          \E k \in 1..(Len(w.content) - 2) : SubSeq(w.content, k, k + 2) = <<"FROM", " ", "tmp_a">>

----------------------------------------------------------------------------
(* A run on a single file *)

\* C20: a run on a single .pry file calls convert_pry_to_dbt as the directory
\* run does, the conversion is done, and the run reaches 'Run finished' without
\* an exception that nothing handles.
C20_SingleFileFinishes ==
    (pc = "start" /\ desc.mode = "file") ~> (pc = "finished")

====
